---- MODULE Spec2Model ----
(***************************************************************************)
(* Model of the wifi-scan library (src/wifi_scan.c): two netlink channels  *)
(* (notifications, commands), initialization and teardown, the scan        *)
(* protocol of wifi_scan_all, the BSS dump parser with its bounded buffer  *)
(* placement, and wifi_scan_station.  The kernel (sockets, replies,        *)
(* multicast notifications) is the environment.                            *)
(***************************************************************************)
EXTENDS Integers, Sequences, FiniteSets, TLC

(***************************************************************************)
(* Bounds of the model.                                                    *)
(***************************************************************************)
MaxCalls == 2       \* wifi_scan_all / wifi_scan_station calls per handle
MaxCloses == 2      \* wifi_scan_close calls on one handle
MaxCap == 2         \* largest bss_infos_length the caller passes
MaxDump == 3        \* most messages of one GET_SCAN dump (dump parser alone)
MaxScanDump == 1    \* most messages of one GET_SCAN dump (whole library)
MaxQueue == 1       \* most datagrams other processes leave pending
MaxAttrs == 2       \* most attributes of a BSS entry put together freely
MaxIe == 3          \* most bytes of an information-element payload
MaxWireDump == 2    \* most messages of one GET_SCAN dump (attribute parsers)

(***************************************************************************)
(* Constants of libmnl and linux/nl80211.h used by the library.            *)
(***************************************************************************)
MNL_CB_ERROR == -1
MNL_CB_STOP == 0
MNL_CB_OK == 1

CTRL_ATTR_FAMILY_ID == 1
CTRL_ATTR_MCAST_GROUPS == 7
CTRL_ATTR_MAX == 7
CTRL_ATTR_MCAST_GRP_NAME == 1
CTRL_ATTR_MCAST_GRP_ID == 2
CTRL_ATTR_MCAST_GRP_MAX == 2

NL80211_ATTR_IFINDEX == 3
NL80211_ATTR_STA_INFO == 21
NL80211_ATTR_SCAN_SSIDS == 45
NL80211_ATTR_BSS == 47
NL80211_ATTR_MAX == 48

NL80211_BSS_BSSID == 1
NL80211_BSS_FREQUENCY == 2
NL80211_BSS_INFORMATION_ELEMENTS == 6
NL80211_BSS_SIGNAL_MBM == 7
NL80211_BSS_STATUS == 9
NL80211_BSS_SEEN_MS_AGO == 10
NL80211_BSS_MAX == 18

NL80211_STA_INFO_SIGNAL == 7
NL80211_STA_INFO_RX_PACKETS == 9
NL80211_STA_INFO_TX_PACKETS == 10
NL80211_STA_INFO_MAX == 30

NL80211_BSS_STATUS_AUTHENTICATED == 0
NL80211_BSS_STATUS_ASSOCIATED == 1
NL80211_BSS_STATUS_IBSS_JOINED == 2
BSS_NONE == -1

BSSID_LENGTH == 6
SSID_MAX_LENGTH_WITH_NULL == 33

NL80211_CMD_GET_STATION == "GET_STATION"
NL80211_CMD_NEW_STATION == "NEW_STATION"
NL80211_CMD_GET_SCAN == "GET_SCAN"
NL80211_CMD_TRIGGER_SCAN == "TRIGGER_SCAN"
NL80211_CMD_NEW_SCAN_RESULTS == "NEW_SCAN_RESULTS"
NL80211_CMD_SCAN_ABORTED == "SCAN_ABORTED"
CTRL_CMD_GETFAMILY == "GETFAMILY"
CTRL_CMD_NEWFAMILY == "NEWFAMILY"

\* wire types of the validation tables (enum mnl_attr_data_type)
MNL_TYPE_U8 == "U8"
MNL_TYPE_U16 == "U16"
MNL_TYPE_U32 == "U32"
MNL_TYPE_STRING == "STRING"
MNL_TYPE_NESTED == "NESTED"
MNL_TYPE_BINARY == "BINARY"

(***************************************************************************)
(* State.                                                                  *)
(***************************************************************************)
VARIABLES
  pc,            \* position of the caller: which API call / phase is running
  wifi,          \* struct wifi_scan: the two struct netlink_channel
  heap,          \* heap blocks and sockets: how often acquired / released
  sock,          \* per socket: blocking mode and multicast membership
  scanning,      \* struct context_NL80211_MULTICAST_GROUP_SCAN of the call
  scan_results,  \* struct context_NL80211_CMD_NEW_SCAN_RESULTS of the call
  station,       \* the caller's struct station_info
  notif_queue,   \* datagrams pending on the notification socket
  kernel,        \* the driver: is a scan running, do other processes exist,
                 \* how many messages its dumps hold at most
  dump,          \* the messages of the running dump handed to the handler
                 \* so far (their numbers, see DumpMsg)
  call,          \* the running API call: name, commands sent, phase results
  prev,          \* the API call completed last: its name, did every
                 \* phase succeed, did it start with the device quiet
  count,         \* how many scan/station calls and closes were made
  ret            \* return value of the last completed API call

vars == <<pc, wifi, heap, sock, scanning, scan_results, station, notif_queue, kernel, dump, call, prev, count, ret>>

(***************************************************************************)
(* Heap blocks and sockets.  acquired/released count malloc/free and       *)
(* mnl_socket_open/mnl_socket_close per object.                            *)
(***************************************************************************)
Resources == {"wifi", "buffer1", "buffer2", "sock1", "sock2"}
Sockets == {"sock1", "sock2"}
NULL == "null"

Acquire(h, r) == [h EXCEPT ![r].acquired = @ + 1]
Release(h, r) == IF r = NULL THEN h ELSE [h EXCEPT ![r].released = @ + 1]
Live(h) == {r \in Resources : h[r].acquired > h[r].released}
DoubleReleased(h) == {r \in Resources : h[r].released > h[r].acquired}

\* if_nametoindex(interface)
Interfaces == {"wlan0", "nosuchif"}
if_nametoindex(interface) == IF interface = "wlan0" THEN 3 ELSE 0

\* calloc'ed struct netlink_channel
ZeroChannel == [nl |-> NULL, buf |-> NULL, nl80211_id |-> 0, ifindex |-> 0,
                sequence |-> 0]

(***************************************************************************)
(* TLV attributes.  An attribute is [type, len, val]: its identifier, the  *)
(* byte length of its payload and the payload (a number, a byte sequence,  *)
(* or for a nested attribute the sequence of attributes it contains).      *)
(***************************************************************************)
Attr(t, l, v) == [type |-> t, len |-> l, val |-> v]

\* struct attribute_validation {attr, type, len}
Rule(a, t, l) == [attr |-> a, type |-> t, len |-> l]

NL80211_VALIDATION ==
  << Rule(CTRL_ATTR_FAMILY_ID, MNL_TYPE_U16, 0),
     Rule(CTRL_ATTR_MCAST_GROUPS, MNL_TYPE_NESTED, 0) >>

NL80211_MCAST_GROUPS_VALIDATION ==
  << Rule(CTRL_ATTR_MCAST_GRP_ID, MNL_TYPE_U32, 0),
     Rule(CTRL_ATTR_MCAST_GRP_NAME, MNL_TYPE_STRING, 0) >>

NL80211_BSS_VALIDATION ==
  << Rule(NL80211_BSS_BSSID, MNL_TYPE_BINARY, 6),
     Rule(NL80211_BSS_FREQUENCY, MNL_TYPE_U32, 0),
     Rule(NL80211_BSS_INFORMATION_ELEMENTS, MNL_TYPE_BINARY, 0),
     Rule(NL80211_BSS_STATUS, MNL_TYPE_U32, 0),
     Rule(NL80211_BSS_SIGNAL_MBM, MNL_TYPE_U32, 0),
     Rule(NL80211_BSS_SEEN_MS_AGO, MNL_TYPE_U32, 0) >>

NL80211_NEW_SCAN_RESULTS_VALIDATION ==
  << Rule(NL80211_ATTR_IFINDEX, MNL_TYPE_U32, 0),
     Rule(NL80211_ATTR_SCAN_SSIDS, MNL_TYPE_NESTED, 0),
     Rule(NL80211_ATTR_BSS, MNL_TYPE_NESTED, 0) >>

NL80211_CMD_NEW_STATION_VALIDATION ==
  << Rule(NL80211_ATTR_STA_INFO, MNL_TYPE_NESTED, 0) >>

NL80211_STA_INFO_VALIDATION ==
  << Rule(NL80211_STA_INFO_SIGNAL, MNL_TYPE_U8, 0),
     Rule(NL80211_STA_INFO_RX_PACKETS, MNL_TYPE_U32, 0),
     Rule(NL80211_STA_INFO_TX_PACKETS, MNL_TYPE_U32, 0) >>

\* mnl_attr_validate(attr, type) >= 0: the payload length fits the wire type
mnl_attr_validate(attr, type) ==
  CASE type = MNL_TYPE_U8 -> attr.len = 1
    [] type = MNL_TYPE_U16 -> attr.len = 2
    [] type = MNL_TYPE_U32 -> attr.len = 4
    [] type = MNL_TYPE_STRING -> attr.len > 0
    [] type = MNL_TYPE_NESTED -> attr.len = 0 \/ attr.len >= 4
    [] OTHER -> TRUE

\* mnl_attr_validate2(attr, type, len) >= 0: exactly len bytes of that type
mnl_attr_validate2(attr, type, len) ==
  /\ attr.len = len
  /\ type = MNL_TYPE_STRING => attr.len > 0
  /\ type = MNL_TYPE_NESTED => (attr.len = 0 \/ attr.len >= 4)

\* the check of validate() for one rule of the table: TRUE when it passes
RuleHolds(attr, rule) ==
  \/ attr.type # rule.attr
  \/ /\ rule.len = 0 => mnl_attr_validate(attr, rule.type)
     /\ rule.len # 0 => mnl_attr_validate2(attr, rule.type, rule.len)

\* a variant of validate that records every attribute in range and checks
\* none
validate_unchecked(attr, attribute_length, validation) ==
  IF attr.type > attribute_length THEN "skip" ELSE "record"

\* validate(attr, vd): "skip" (out of range), "error", or "record"
validate(attr, attribute_length, validation) ==
  IF attr.type > attribute_length THEN "skip"
  ELSE IF \E i \in 1..Len(validation) : ~RuleHolds(attr, validation[i])
       THEN "error"
       ELSE "record"

\* tb[] = {}: no attribute recorded; tb[t] is the position in the message of
\* the attribute recorded for identifier t, 0 standing for the null pointer
EmptyTb(attribute_length) == [t \in 0..attribute_length |-> 0]

\* mnl_attr_parse / mnl_attr_parse_nested with validate as callback: walks
\* the attributes from position i on and stops at the first error
RECURSIVE mnl_attr_parse(_, _, _, _, _)
mnl_attr_parse(attrs, i, tb, attribute_length, validation) ==
  IF i > Len(attrs) THEN [tb |-> tb, ret |-> MNL_CB_OK]
  ELSE LET v == validate(attrs[i], attribute_length, validation) IN
       CASE v = "error" -> [tb |-> tb, ret |-> MNL_CB_ERROR]
         [] v = "skip" ->
              mnl_attr_parse(attrs, i + 1, tb, attribute_length, validation)
         [] OTHER ->
              mnl_attr_parse(attrs, i + 1,
                             [tb EXCEPT ![attrs[i].type] = i],
                             attribute_length, validation)

\* the table a handler works with after its validation pass
Parse(attrs, attribute_length, validation) ==
  mnl_attr_parse(attrs, 1, EmptyTb(attribute_length), attribute_length,
                 validation).tb

(***************************************************************************)
(* BSS records and the parsers of one BSS entry.                           *)
(***************************************************************************)
\* struct bss_info
Bss(b, f, s, sig, seen, st) ==
  [bssid |-> b, frequency |-> f, ssid |-> s, signal_mbm |-> sig,
   seen_ms_ago |-> seen, status |-> st]

\* a zero-terminated string held in a char array: the bytes before the first 0
RECURSIVE CStr(_)
CStr(bytes) ==
  IF bytes = <<>> \/ Head(bytes) = 0 THEN <<>>
  ELSE <<Head(bytes)>> \o CStr(Tail(bytes))

\* a byte read through const char* (char is signed)
SignedChar(b) == IF b >= 128 THEN b - 256 ELSE b

\* a variant of the SSID parser that takes no SSID of the full 32 bytes
parse_NL80211_BSS_INFORMATION_ELEMENTS_short(ie) ==
  LET payload == ie.bytes
      len == Len(payload)
      p1 == IF len >= 2 THEN SignedChar(payload[2]) ELSE SignedChar(ie.next)
      rejected == \/ len = 0
                  \/ payload[1] # 0
                  \/ p1 >= SSID_MAX_LENGTH_WITH_NULL - 1
                  \/ p1 > len - 2
      oob_read == len = 1 /\ payload[1] = 0
  IN IF rejected
     THEN [ssid |-> <<>>, oob_read |-> oob_read, oob_write |-> FALSE]
     ELSE IF p1 < 0
     THEN [ssid |-> <<>>, oob_read |-> oob_read, oob_write |-> TRUE]
     ELSE [ssid |-> CStr(SubSeq(payload, 3, 2 + p1)),
           oob_read |-> oob_read, oob_write |-> FALSE]

\* parse_NL80211_BSS_INFORMATION_ELEMENTS: ie.bytes is the attribute payload,
\* ie.next the byte that follows it in the receive buffer.  Returns the
\* string left in SSID_OUT, and whether a byte outside the payload was read
\* or a byte outside SSID_OUT written.
parse_NL80211_BSS_INFORMATION_ELEMENTS(ie) ==
  LET payload == ie.bytes
      len == Len(payload)
      p1 == IF len >= 2 THEN SignedChar(payload[2]) ELSE SignedChar(ie.next)
      rejected == \/ len = 0
                  \/ payload[1] # 0
                  \/ p1 >= SSID_MAX_LENGTH_WITH_NULL
                  \/ p1 > len - 2
      oob_read == len = 1 /\ payload[1] = 0
  IN IF rejected
     THEN [ssid |-> <<>>, oob_read |-> oob_read, oob_write |-> FALSE]
     ELSE IF p1 < 0
     THEN [ssid |-> <<>>, oob_read |-> oob_read, oob_write |-> TRUE]
     ELSE [ssid |-> CStr(SubSeq(payload, 3, 2 + p1)),
           oob_read |-> oob_read, oob_write |-> FALSE]

\* parse_NL80211_BSS_BSSID
parse_NL80211_BSS_BSSID(attr) ==
  IF attr.len # BSSID_LENGTH THEN <<0, 0, 0, 0, 0, 0>> ELSE attr.val

\* is this nl80211 status one that puts the entry first
IsAssociated(status) ==
  \/ status = NL80211_BSS_STATUS_ASSOCIATED
  \/ status = NL80211_BSS_STATUS_IBSS_JOINED

\* the field assignments at the end of parse_NL80211_ATTR_BSS: every field
\* whose attribute was recorded is overwritten, status always is
FillBss(old, attrs, tb, status) ==
  LET has(t) == tb[t] # 0
      at(t) == attrs[tb[t]]
      ie == parse_NL80211_BSS_INFORMATION_ELEMENTS(
              at(NL80211_BSS_INFORMATION_ELEMENTS).val)
  IN [bssid |-> IF has(NL80211_BSS_BSSID)
                THEN parse_NL80211_BSS_BSSID(at(NL80211_BSS_BSSID))
                ELSE old.bssid,
      frequency |-> IF has(NL80211_BSS_FREQUENCY)
                    THEN at(NL80211_BSS_FREQUENCY).val ELSE old.frequency,
      ssid |-> IF has(NL80211_BSS_INFORMATION_ELEMENTS)
               THEN ie.ssid ELSE old.ssid,
      signal_mbm |-> IF has(NL80211_BSS_SIGNAL_MBM)
                     THEN at(NL80211_BSS_SIGNAL_MBM).val ELSE old.signal_mbm,
      seen_ms_ago |-> IF has(NL80211_BSS_SEEN_MS_AGO)
                      THEN at(NL80211_BSS_SEEN_MS_AGO).val
                      ELSE old.seen_ms_ago,
      status |-> status]

\* did the SSID parser touch memory outside its buffers for this entry
IeMemoryError(attrs, tb) ==
  /\ tb[NL80211_BSS_INFORMATION_ELEMENTS] # 0
  /\ LET ie == parse_NL80211_BSS_INFORMATION_ELEMENTS(
                 attrs[tb[NL80211_BSS_INFORMATION_ELEMENTS]].val)
     IN ie.oob_read \/ ie.oob_write

\* a placement that keeps the order of arrival for every entry
TargetSlotInOrder(sr, status) == sr.scanned

\* the slot the entry is written to: slot 0 for an associated entry,
\* slot `scanned` otherwise
TargetSlot(sr, status) == IF IsAssociated(status) THEN 0 ELSE sr.scanned

\* does the associated entry first move slot 0 to slot `scanned`
MovesFirst(sr, status) ==
  /\ IsAssociated(status)
  /\ sr.scanned > 0
  /\ sr.scanned < sr.bss_infos_length

\* a variant of the bounds check that looks at capacity 0 only
NotWrittenUnlessEmpty(sr, status) == sr.bss_infos_length = 0

\* the bounds check: the entry is counted but not written
NotWritten(sr, status) ==
  \/ sr.bss_infos_length = 0
  \/ (sr.scanned >= sr.bss_infos_length /\ TargetSlot(sr, status) # 0)

\* write record r to slot i of the caller's array; a slot outside the array
\* is a write outside the caller's memory
Store(sr, i, r) ==
  IF i \in DOMAIN sr.bss_infos
  THEN [sr EXCEPT !.bss_infos[i] = r, !.written = @ \cup {i}]
  ELSE [sr EXCEPT !.memory_error = TRUE]

\* the status read from the entry: BSS_NONE unless NL80211_BSS_STATUS came
BssStatus(nested, tb) ==
  IF tb[NL80211_BSS_STATUS] # 0
  THEN nested[tb[NL80211_BSS_STATUS]].val ELSE BSS_NONE

\* a variant without the memcpy: the record in slot 0 is not kept
MoveFirstDropped(sr, status) == sr

\* "store first as last": the memcpy of slot 0 to slot `scanned`
MoveFirst(sr, status) ==
  IF MovesFirst(sr, status)
  THEN Store(sr, sr.scanned, sr.bss_infos[0]) ELSE sr

\* the record bss points to before the field assignments
OldBss(sr, slot) ==
  IF slot \in DOMAIN sr.bss_infos THEN sr.bss_infos[slot]
  ELSE Bss(<<>>, 0, <<>>, 0, 0, 0)

\* the field assignments into slot `slot` and ++scanned
WriteBss(sr, slot, nested, tb, status) ==
  [Store(sr, slot, FillBss(OldBss(sr, slot), nested, tb, status))
     EXCEPT !.scanned = @ + 1,
            !.memory_error = @ \/ IeMemoryError(nested, tb)]

\* a variant that counts only the entries it writes
PlaceBssUncounted(nested, sr, tb, status) ==
  IF NotWritten(sr, status)
  THEN MoveFirst(sr, status)
  ELSE WriteBss(MoveFirst(sr, status), TargetSlot(sr, status), nested, tb,
                status)

\* a variant that copies slot 0 to slot `scanned` after the entry is
\* written, not before
PlaceBssMoveAfter(nested, sr, tb, status) ==
  IF NotWritten(sr, status)
  THEN [sr EXCEPT !.scanned = @ + 1]
  ELSE IF MovesFirst(sr, status)
  THEN Store(WriteBss(sr, 0, nested, tb, status), sr.scanned,
             FillBss(sr.bss_infos[0], nested, tb, status))
  ELSE WriteBss(sr, TargetSlot(sr, status), nested, tb, status)

\* parse_NL80211_ATTR_BSS once the attributes are in tb and the status is
\* read: the move, the bounds check, the assignments, the count
PlaceBss(nested, sr, tb, status) ==
  IF NotWritten(sr, status)
  THEN [MoveFirst(sr, status) EXCEPT !.scanned = @ + 1]
  ELSE WriteBss(MoveFirst(sr, status), TargetSlot(sr, status), nested, tb,
                status)

\* parse_NL80211_ATTR_BSS with the attributes parsed into tb
parse_NL80211_ATTR_BSS_tb(nested, sr, tb) ==
  PlaceBss(nested, sr, tb, BssStatus(nested, tb))

\* parse_NL80211_ATTR_BSS: sr is the context (bss_infos is the caller's
\* array, indexed from 0), nested the attributes of the BSS entry
parse_NL80211_ATTR_BSS(nested, sr) ==
  parse_NL80211_ATTR_BSS_tb(nested, sr,
    Parse(nested, NL80211_BSS_MAX, NL80211_BSS_VALIDATION))

\* a netlink message: kind "data" (a generic netlink message with command
\* cmd and top-level attributes), "error" (NLMSG_ERROR; error = 0 is an ACK)
\* or "done" (NLMSG_DONE); seq and pid are nlmsg_seq and nlmsg_pid
Msg(kind, cmd, seq, pid, error, attrs) ==
  [kind |-> kind, cmd |-> cmd, seq |-> seq, pid |-> pid, error |-> error,
   attrs |-> attrs]
Data(cmd, seq, pid, attrs) == Msg("data", cmd, seq, pid, 0, attrs)
Ack(seq, pid) == Msg("error", "NLMSG_ERROR", seq, pid, 0, <<>>)
Nack(seq, pid) == Msg("error", "NLMSG_ERROR", seq, pid, -16, <<>>)
Done(seq, pid) == Msg("done", "NLMSG_DONE", seq, pid, 0, <<>>)

\* handle_NL80211_CMD_NEW_SCAN_RESULTS: returns the context; the callback's
\* status is MNL_CB_OK on every path
handle_NL80211_CMD_NEW_SCAN_RESULTS(msg, sr) ==
  IF msg.cmd # NL80211_CMD_NEW_SCAN_RESULTS THEN sr
  ELSE LET tb == Parse(msg.attrs, NL80211_ATTR_MAX,
                       NL80211_NEW_SCAN_RESULTS_VALIDATION)
       IN IF tb[NL80211_ATTR_BSS] = 0 THEN sr
          ELSE parse_NL80211_ATTR_BSS(msg.attrs[tb[NL80211_ATTR_BSS]].val, sr)

(***************************************************************************)
(* Station records and the GET_STATION reply.                              *)
(***************************************************************************)
\* struct station_info
Station(b, s, st, sig, rx, tx) ==
  [bssid |-> b, ssid |-> s, status |-> st, signal_dbm |-> sig,
   rx_packets |-> rx, tx_packets |-> tx]

\* (int8_t) of a byte
Int8(b) == IF b >= 128 THEN b - 256 ELSE b

\* parse_NL80211_ATTR_STA_INFO
parse_NL80211_ATTR_STA_INFO(nested, st) ==
  LET tb == Parse(nested, NL80211_STA_INFO_MAX, NL80211_STA_INFO_VALIDATION)
      has(t) == tb[t] # 0
      at(t) == nested[tb[t]]
  IN [st EXCEPT
        !.signal_dbm = IF has(NL80211_STA_INFO_SIGNAL)
                       THEN Int8(at(NL80211_STA_INFO_SIGNAL).val) ELSE @,
        !.rx_packets = IF has(NL80211_STA_INFO_RX_PACKETS)
                       THEN at(NL80211_STA_INFO_RX_PACKETS).val ELSE @,
        !.tx_packets = IF has(NL80211_STA_INFO_TX_PACKETS)
                       THEN at(NL80211_STA_INFO_TX_PACKETS).val ELSE @]

\* handle_NL80211_CMD_NEW_STATION: returns the station record; the callback's
\* status is MNL_CB_OK on every path
handle_NL80211_CMD_NEW_STATION(msg, st) ==
  IF msg.cmd # NL80211_CMD_NEW_STATION THEN st
  ELSE LET tb == Parse(msg.attrs, NL80211_ATTR_MAX,
                       NL80211_CMD_NEW_STATION_VALIDATION)
       IN IF tb[NL80211_ATTR_STA_INFO] = 0 THEN st
          ELSE parse_NL80211_ATTR_STA_INFO(
                 msg.attrs[tb[NL80211_ATTR_STA_INFO]].val, st)

(***************************************************************************)
(* Family and multicast group resolution.  The context is                  *)
(* [nl80211_id, id_NL80211_MULTICAST_GROUP_SCAN]: the channel's family id  *)
(* and the struct context_CTRL_CMD_GETFAMILY.                              *)
(***************************************************************************)
\* parse_CTRL_ATTR_MCAST_GROUPS from group number i on: [ok, ctx]
RECURSIVE parse_CTRL_ATTR_MCAST_GROUPS(_, _, _)
parse_CTRL_ATTR_MCAST_GROUPS(nested, i, ctx) ==
  IF i > Len(nested) THEN [ok |-> TRUE, ctx |-> ctx]
  ELSE LET grp == nested[i].val
           tb == Parse(grp, CTRL_ATTR_MCAST_GRP_MAX,
                       NL80211_MCAST_GROUPS_VALIDATION)
           named == /\ tb[CTRL_ATTR_MCAST_GRP_NAME] # 0
                    /\ grp[tb[CTRL_ATTR_MCAST_GRP_NAME]].val = "scan"
       IN IF ~named THEN parse_CTRL_ATTR_MCAST_GROUPS(nested, i + 1, ctx)
          ELSE IF tb[CTRL_ATTR_MCAST_GRP_ID] = 0
          THEN [ok |-> FALSE, ctx |-> ctx]
          ELSE parse_CTRL_ATTR_MCAST_GROUPS(nested, i + 1,
                 [ctx EXCEPT !.id_NL80211_MULTICAST_GROUP_SCAN =
                                grp[tb[CTRL_ATTR_MCAST_GRP_ID]].val])

\* handle_CTRL_CMD_GETFAMILY: [ctx, ret]
handle_CTRL_CMD_GETFAMILY(msg, ctx) ==
  LET tb == Parse(msg.attrs, CTRL_ATTR_MAX, NL80211_VALIDATION) IN
  IF tb[CTRL_ATTR_FAMILY_ID] = 0 THEN [ctx |-> ctx, ret |-> MNL_CB_ERROR]
  ELSE LET c1 == [ctx EXCEPT !.nl80211_id =
                                msg.attrs[tb[CTRL_ATTR_FAMILY_ID]].val]
           g == IF tb[CTRL_ATTR_MCAST_GROUPS] = 0
                THEN [ok |-> TRUE, ctx |-> c1]
                ELSE parse_CTRL_ATTR_MCAST_GROUPS(
                       msg.attrs[tb[CTRL_ATTR_MCAST_GROUPS]].val, 1, c1)
       IN [ctx |-> g.ctx, ret |-> IF g.ok THEN MNL_CB_OK ELSE MNL_CB_ERROR]

(***************************************************************************)
(* Transport: mnl_cb_run and receive_nl_message.                           *)
(***************************************************************************)
\* the callback handed to receive_nl_message, applied to a data message:
\* [ctx, ret]
Callback(callback, msg, ctx) ==
  CASE callback = "handle_NL80211_CMD_NEW_SCAN_RESULTS" ->
         [ctx |-> handle_NL80211_CMD_NEW_SCAN_RESULTS(msg, ctx),
          ret |-> MNL_CB_OK]
    [] callback = "handle_NL80211_CMD_NEW_STATION" ->
         [ctx |-> handle_NL80211_CMD_NEW_STATION(msg, ctx),
          ret |-> MNL_CB_OK]
    [] OTHER -> handle_CTRL_CMD_GETFAMILY(msg, ctx)

\* a variant of the sequence check that lets every message through
mnl_nlmsg_seq_ok_any(msg, seq) == TRUE

\* mnl_nlmsg_seq_ok / mnl_nlmsg_portid_ok: a zero on either side matches
mnl_nlmsg_seq_ok(msg, seq) == (msg.seq # 0 /\ seq # 0) => msg.seq = seq
mnl_nlmsg_portid_ok(msg, portid) ==
  (msg.pid # 0 /\ portid # 0) => msg.pid = portid

\* mnl_cb_run on a datagram holding one message: [ctx, ret]
mnl_cb_run(msg, seq, portid, callback, ctx) ==
  IF ~mnl_nlmsg_portid_ok(msg, portid) \/ ~mnl_nlmsg_seq_ok(msg, seq)
  THEN [ctx |-> ctx, ret |-> MNL_CB_ERROR]
  ELSE CASE msg.kind = "error" ->
              [ctx |-> ctx,
               ret |-> IF msg.error = 0 THEN MNL_CB_STOP ELSE MNL_CB_ERROR]
         [] msg.kind = "done" -> [ctx |-> ctx, ret |-> MNL_CB_STOP]
         [] OTHER -> Callback(callback, msg, ctx)

\* what mnl_socket_recvfrom returns for one element of a reply stream: the
\* element is a message, or of kind "EIO" for a failed receive (-1)
RecvError == Msg("EIO", "none", 0, 0, 0, <<>>)
RecvFailed(reply) == reply.kind = "EIO"

\* the receive loop of receive_nl_message over the replies the kernel sends,
\* from reply i on: [ctx, ret].  receive_loop is the receive and the loop
\* condition, receive_loop_body what follows mnl_cb_run returning r.
RECURSIVE receive_loop(_, _, _, _, _, _)
receive_loop_body(replies, i, seq, portid, callback, r) ==
  IF r.ret <= 0 THEN r
  ELSE receive_loop(replies, i + 1, seq, portid, callback, r.ctx)
receive_loop(replies, i, seq, portid, callback, ctx) ==
  IF i > Len(replies) \/ RecvFailed(replies[i])
  THEN [ctx |-> ctx, ret |-> MNL_CB_ERROR]
  ELSE receive_loop_body(replies, i, seq, portid, callback,
         mnl_cb_run(replies[i], seq, portid, callback, ctx))

\* a variant that advances the sequence number only after an exchange that
\* did not fail
receive_nl_message_return_on_success(channel, r) ==
  [channel |-> IF r.ret = MNL_CB_ERROR THEN channel
               ELSE [channel EXCEPT !.sequence = @ + 1],
   ctx |-> r.ctx, ret |-> r.ret]

\* ++channel->sequence; return ret: [channel, ctx, ret]
receive_nl_message_return(channel, r) ==
  [channel |-> [channel EXCEPT !.sequence = @ + 1],
   ctx |-> r.ctx, ret |-> r.ret]

\* receive_nl_message: the loop, then ++channel->sequence
receive_nl_message(channel, portid, replies, callback, ctx) ==
  receive_nl_message_return(channel,
    receive_loop(replies, 1, channel.sequence, portid, callback, ctx))

(***************************************************************************)
(* Initialization and cleanup.                                             *)
(***************************************************************************)
\* port id the kernel assigns to a socket bound with MNL_SOCKET_AUTOPID
mnl_socket_get_portid(s) == IF s = "sock1" THEN 101 ELSE 102

\* init_netlink_socket: [ok, channel, heap, step]; step names the call that
\* decided the result
init_netlink_socket(channel, s, h, open_ok, bind_ok) ==
  IF ~open_ok
  THEN [ok |-> FALSE, channel |-> [channel EXCEPT !.nl = NULL], heap |-> h,
        step |-> "mnl_socket_open"]
  ELSE [ok |-> bind_ok, channel |-> [channel EXCEPT !.nl = s],
        heap |-> Acquire(h, s), step |-> "mnl_socket_bind"]

\* a variant that opens the socket before it looks the interface up, and
\* returns from the failed lookup without the socket
init_netlink_channel_leaky(channel, ifindex, buffer, s, h, open_ok, bind_ok) ==
  IF ifindex = 0
  THEN [ok |-> FALSE,
        channel |-> [channel EXCEPT !.sequence = 1, !.buf = buffer,
                                    !.nl = NULL, !.ifindex = ifindex],
        heap |-> IF open_ok THEN Acquire(h, s) ELSE h,
        step |-> "if_nametoindex"]
  ELSE init_netlink_socket([channel EXCEPT !.sequence = 1, !.buf = buffer,
                                           !.nl = NULL, !.ifindex = ifindex],
                           s, h, open_ok, bind_ok)

\* init_netlink_channel: [ok, channel, heap, step]
init_netlink_channel(channel, ifindex, buffer, s, h, open_ok, bind_ok) ==
  LET c == [channel EXCEPT !.sequence = 1, !.buf = buffer, !.nl = NULL,
                           !.ifindex = ifindex]
  IN IF ifindex = 0
     THEN [ok |-> FALSE, channel |-> c, heap |-> h,
           step |-> "if_nametoindex"]
     ELSE init_netlink_socket(c, s, h, open_ok, bind_ok)

\* get_family_and_scan_ids after receive_nl_message returned r: the family
\* id the handler stored is in the channel, the group id in the context
get_family_and_scan_ids_return(r) ==
  [ret |-> r.ret,
   channel |-> [r.channel EXCEPT !.nl80211_id = r.ctx.nl80211_id],
   id_NL80211_MULTICAST_GROUP_SCAN |->
     r.ctx.id_NL80211_MULTICAST_GROUP_SCAN]

\* get_family_and_scan_ids: [ret, channel, id_NL80211_MULTICAST_GROUP_SCAN]
get_family_and_scan_ids(channel, send_ok, replies) ==
  IF ~send_ok
  THEN [ret |-> MNL_CB_ERROR, channel |-> channel,
        id_NL80211_MULTICAST_GROUP_SCAN |-> 0]
  ELSE get_family_and_scan_ids_return(
         receive_nl_message(channel, mnl_socket_get_portid(channel.nl),
           replies, "handle_CTRL_CMD_GETFAMILY",
           [nl80211_id |-> channel.nl80211_id,
            id_NL80211_MULTICAST_GROUP_SCAN |-> 0]))

\* the replies the kernel may give to CTRL_CMD_GETFAMILY sent with sequence
\* number seq from port pid
Group(i, name, id) ==
  Attr(i, 16, << Attr(CTRL_ATTR_MCAST_GRP_NAME, Len(name) + 1, name),
                 Attr(CTRL_ATTR_MCAST_GRP_ID, 4, id) >>)
FamilyId == Attr(CTRL_ATTR_FAMILY_ID, 2, 28)
FamilyReplies(seq, pid) ==
  << \* the family with its groups, "scan" among them
     << Data(CTRL_CMD_NEWFAMILY, seq, pid,
             << FamilyId,
                Attr(CTRL_ATTR_MCAST_GROUPS, 32,
                     << Group(1, "config", 4), Group(2, "scan", 5) >>) >>),
        Ack(seq, pid) >>,
     \* no family id attribute
     << Data(CTRL_CMD_NEWFAMILY, seq, pid,
             << Attr(CTRL_ATTR_MCAST_GROUPS, 16,
                     << Group(1, "scan", 5) >>) >>),
        Ack(seq, pid) >>,
     \* no multicast groups at all
     << Data(CTRL_CMD_NEWFAMILY, seq, pid, << FamilyId >>), Ack(seq, pid) >>,
     \* groups, but none named scan
     << Data(CTRL_CMD_NEWFAMILY, seq, pid,
             << FamilyId,
                Attr(CTRL_ATTR_MCAST_GROUPS, 16,
                     << Group(1, "config", 4) >>) >>),
        Ack(seq, pid) >>,
     \* a group named scan without an id
     << Data(CTRL_CMD_NEWFAMILY, seq, pid,
             << FamilyId,
                Attr(CTRL_ATTR_MCAST_GROUPS, 12,
                     << Attr(1, 12, << Attr(CTRL_ATTR_MCAST_GRP_NAME, 5,
                                            "scan") >>) >>) >>),
        Ack(seq, pid) >>,
     \* the family is unknown to the kernel
     << Nack(seq, pid) >>,
     \* the receive fails
     << RecvError >>,
     \* groups whose names only begin with, or only contain, scan
     << Data(CTRL_CMD_NEWFAMILY, seq, pid,
             << FamilyId,
                Attr(CTRL_ATTR_MCAST_GROUPS, 32,
                     << Group(1, "scanning", 4), Group(2, "noscan", 5) >>) >>),
        Ack(seq, pid) >> >>

\* what the environment decides during one wifi_scan_init
InitEnv ==
  [calloc_ok : BOOLEAN, open1 : BOOLEAN, bind1 : BOOLEAN, send_ok : BOOLEAN,
   reply : 1..8, vanished : BOOLEAN, open2 : BOOLEAN, bind2 : BOOLEAN,
   subscribe_ok : BOOLEAN]

\* subscribe_NL80211_MULTICAST_GROUP_SCAN: the socket table after a
\* successful NETLINK_ADD_MEMBERSHIP
subscribe_NL80211_MULTICAST_GROUP_SCAN(sk, s, scan_group_id) ==
  [sk EXCEPT ![s].groups = @ \cup {scan_group_id}]

\* wifi_scan_init_internal from the second init_netlink_channel on: c2 is
\* what it returned, w the handle with the command channel it set up
wifi_scan_init_internal_commands(w, sk, env, scan_group_id, c2) ==
  IF ~c2.ok
  THEN [ok |-> FALSE, wifi |-> w, heap |-> c2.heap, sock |-> sk,
        step |-> "command channel"]
  ELSE IF ~env.subscribe_ok
  THEN [ok |-> FALSE,
        wifi |-> [w EXCEPT !.command_channel.nl80211_id =
                              w.notification_channel.nl80211_id],
        heap |-> c2.heap, sock |-> sk, step |-> "subscribe"]
  ELSE [ok |-> TRUE,
        wifi |-> [w EXCEPT !.command_channel.nl80211_id =
                              w.notification_channel.nl80211_id],
        heap |-> c2.heap,
        sock |-> subscribe_NL80211_MULTICAST_GROUP_SCAN(sk, "sock1",
                   scan_group_id),
        step |-> "none"]

\* a variant in which the command channel goes on counting where the
\* notification channel stands
WithCommandChannel_shared(w, c2) ==
  [w EXCEPT !.command_channel =
     [c2.channel EXCEPT !.sequence = w.notification_channel.sequence]]

\* the handle after init_netlink_channel(&wifi->command_channel, ...)
\* returned c2
WithCommandChannel(w, c2) == [w EXCEPT !.command_channel = c2.channel]

\* a variant that goes on to the command channel without looking at the
\* group id the reply gave
wifi_scan_init_internal_family_unchecked(w, h, sk, interface, env, fam) ==
  IF fam.ret = -1
  THEN [ok |-> FALSE, wifi |-> w, heap |-> h, sock |-> sk,
        step |-> "get_family_and_scan_ids"]
  ELSE wifi_scan_init_internal_commands(
         WithCommandChannel(w,
           init_netlink_channel(w.command_channel,
             IF env.vanished THEN 0 ELSE if_nametoindex(interface),
             "buffer2", "sock2", h, env.open2, env.bind2)),
         sk, env, fam.id_NL80211_MULTICAST_GROUP_SCAN,
         init_netlink_channel(w.command_channel,
           IF env.vanished THEN 0 ELSE if_nametoindex(interface),
           "buffer2", "sock2", h, env.open2, env.bind2))

\* wifi_scan_init_internal from get_family_and_scan_ids on: fam is what it
\* returned, w the handle with the notification channel as it left it
wifi_scan_init_internal_family(w, h, sk, interface, env, fam) ==
  IF fam.ret = -1
  THEN [ok |-> FALSE, wifi |-> w, heap |-> h, sock |-> sk,
        step |-> "get_family_and_scan_ids"]
  ELSE IF fam.id_NL80211_MULTICAST_GROUP_SCAN = 0
  THEN [ok |-> FALSE, wifi |-> w, heap |-> h, sock |-> sk,
        step |-> "no scan group"]
  ELSE LET c2 == init_netlink_channel(w.command_channel,
                   IF env.vanished THEN 0 ELSE if_nametoindex(interface),
                   "buffer2", "sock2", h, env.open2, env.bind2)
       IN wifi_scan_init_internal_commands(WithCommandChannel(w, c2), sk,
            env, fam.id_NL80211_MULTICAST_GROUP_SCAN, c2)

\* the handle after get_family_and_scan_ids returned fam
WithNotificationChannel(w, fam) ==
  [w EXCEPT !.notification_channel = fam.channel]

\* wifi_scan_init_internal from the first init_netlink_channel on: c1 is
\* what it returned
wifi_scan_init_internal_notifications(w, sk, interface, env, c1) ==
  IF ~c1.ok
  THEN [ok |-> FALSE,
        wifi |-> [w EXCEPT !.notification_channel = c1.channel],
        heap |-> c1.heap, sock |-> sk, step |-> c1.step]
  ELSE LET fam == get_family_and_scan_ids(c1.channel, env.send_ok,
                    FamilyReplies(c1.channel.sequence,
                                  mnl_socket_get_portid("sock1"))[env.reply])
       IN wifi_scan_init_internal_family(WithNotificationChannel(w, fam),
            c1.heap, sk, interface, env, fam)

\* wifi_scan_init_internal: [ok, wifi, heap, sock, step]; step names the
\* step that failed
wifi_scan_init_internal(w, h, sk, interface, env) ==
  wifi_scan_init_internal_notifications(w, sk, interface, env,
    init_netlink_channel(w.notification_channel, if_nametoindex(interface),
                         "buffer1", "sock1", h, env.open1, env.bind1))

\* a variant that releases only what is still held
close_netlink_channel_once(channel, h) ==
  LET held(r) == r # NULL /\ h[r].acquired > h[r].released
      h1 == IF held(channel.buf) THEN Release(h, channel.buf) ELSE h
  IN IF held(channel.nl) THEN Release(h1, channel.nl) ELSE h1

\* close_netlink_channel: free(channel->buf), and mnl_socket_close(channel->nl)
\* when nl is not null; neither pointer is cleared
close_netlink_channel(channel, h) ==
  Release(Release(h, channel.buf), channel.nl)

\* wifi_scan_close: the heap afterwards
wifi_scan_close_heap(w, h) ==
  close_netlink_channel(w.command_channel,
                        close_netlink_channel(w.notification_channel, h))

(***************************************************************************)
(* What the kernel sends: BSS entries of a GET_SCAN dump, notifications.   *)
(***************************************************************************)
\* the information-element payload carrying SSID bytes ssid
Ie(ssid) == [bytes |-> <<0, Len(ssid)>> \o ssid, next |-> 0]

\* BSS entry number k of the driver's table, with the attributes of `fields`
\* (status is <<>> when the driver sends no NL80211_BSS_STATUS, else <<s>>)
BssAttrs(k, fields, status) ==
  (IF "bssid" \in fields
   THEN << Attr(NL80211_BSS_BSSID, 6, <<k, k, k, k, k, k>>) >> ELSE <<>>)
  \o (IF "frequency" \in fields
      THEN << Attr(NL80211_BSS_FREQUENCY, 4, 2400 + k) >> ELSE <<>>)
  \o (IF "ssid" \in fields
      THEN << Attr(NL80211_BSS_INFORMATION_ELEMENTS,
                   Len(Ie(<<64 + k, 65>>).bytes), Ie(<<64 + k, 65>>)) >>
      ELSE <<>>)
  \o (IF "signal" \in fields
      THEN << Attr(NL80211_BSS_SIGNAL_MBM, 4, 10 * k) >> ELSE <<>>)
  \o (IF status # <<>>
      THEN << Attr(NL80211_BSS_STATUS, 4, status[1]) >> ELSE <<>>)
  \o (IF "seen" \in fields
      THEN << Attr(NL80211_BSS_SEEN_MS_AGO, 4, k) >> ELSE <<>>)

AllFields == {"bssid", "frequency", "ssid", "signal", "seen"}

\* the BSS entries the driver can report: the number the values of the
\* entry are made of, the attributes it carries, and its NL80211_BSS_STATUS
BssTable ==
  << [k |-> 1, fields |-> AllFields, status |-> <<>>],
     [k |-> 2, fields |-> AllFields,
      status |-> <<NL80211_BSS_STATUS_ASSOCIATED>>],
     [k |-> 3, fields |-> {"bssid", "signal"}, status |-> <<>>],
     [k |-> 4, fields |-> {"bssid", "ssid", "seen"},
      status |-> <<NL80211_BSS_STATUS_IBSS_JOINED>>],
     [k |-> 5, fields |-> {"bssid", "frequency"},
      status |-> <<NL80211_BSS_STATUS_AUTHENTICATED>>],
     [k |-> 6, fields |-> AllFields,
      status |-> <<NL80211_BSS_STATUS_IBSS_JOINED>>],
     [k |-> 7, fields |-> AllFields, status |-> <<>>] >>

\* their nested attributes
BssCatalog ==
  [i \in 1..Len(BssTable) |->
     BssAttrs(BssTable[i].k, BssTable[i].fields, BssTable[i].status)]

NBss == Len(BssCatalog)

\* message number i a dump can contain: a BSS entry, a NEW_SCAN_RESULTS
\* message without NL80211_ATTR_BSS, or a message of another command
DumpMsg(i, seq, pid) ==
  IF i <= NBss
  THEN Data(NL80211_CMD_NEW_SCAN_RESULTS, seq, pid,
            << Attr(NL80211_ATTR_IFINDEX, 4, 3),
               Attr(NL80211_ATTR_BSS, 4 * Len(BssCatalog[i]),
                    BssCatalog[i]) >>)
  ELSE IF i = NBss + 1
  THEN Data(NL80211_CMD_NEW_SCAN_RESULTS, seq, pid,
            << Attr(NL80211_ATTR_IFINDEX, 4, 3) >>)
  ELSE IF i = NBss + 2
  THEN Data(NL80211_CMD_NEW_STATION, seq, pid, <<>>)
  ELSE IF i = NBss + 3
  THEN Data(NL80211_CMD_NEW_SCAN_RESULTS, seq, pid,
            << Attr(NL80211_ATTR_IFINDEX, 4, 3),
               Attr(NL80211_ATTR_BSS, 4 * Len(kernel.entry), kernel.entry) >>)
  ELSE IF i = NBss + 4
  THEN Data(NL80211_CMD_NEW_SCAN_RESULTS, 1, pid,
            << Attr(NL80211_ATTR_IFINDEX, 4, 3),
               Attr(NL80211_ATTR_BSS, 4 * Len(BssCatalog[1]),
                    BssCatalog[1]) >>)
  ELSE Data(NL80211_CMD_NEW_SCAN_RESULTS, seq, pid,
            << Attr(NL80211_ATTR_IFINDEX, 2, 3),
               Attr(NL80211_ATTR_BSS, 4 * Len(BssCatalog[1]),
                    BssCatalog[1]) >>)

NDumpMsg == NBss + 2

\* three more messages, for the attribute parsers: the BSS entry whose
\* attributes are kernel.entry; BSS entry #1 as it answered the first
\* request of the channel (sequence number 1), sent once more; and BSS
\* entry #1 behind an interface index of two bytes
WireMsg == NBss + 3
DuplicateMsg == NBss + 4
ShortIfindexMsg == NBss + 5

\* the dump messages of the driver the whole library runs against: one BSS
\* that is not associated, the associated one, and a message without a BSS
ScanDumpMsgs == {1, 2, NBss + 1}

\* how a reply stream ends: NLMSG_DONE / ACK, an error message, or a failed
\* receive
Terminal(t, seq, pid) ==
  CASE t = "done" -> Done(seq, pid)
    [] t = "ack" -> Ack(seq, pid)
    [] t = "nack" -> Nack(seq, pid)
    [] OTHER -> RecvError

\* is this dump message a BSS entry, and the attributes of the entry
IsBssEntry(msg) ==
  /\ msg.kind = "data"
  /\ msg.cmd = NL80211_CMD_NEW_SCAN_RESULTS
  /\ \E i \in 1..Len(msg.attrs) : msg.attrs[i].type = NL80211_ATTR_BSS
EntryAttrs(msg) ==
  msg.attrs[CHOOSE i \in 1..Len(msg.attrs) :
              msg.attrs[i].type = NL80211_ATTR_BSS].val

\* notifications on the scan multicast group
TriggerNotification == Data(NL80211_CMD_TRIGGER_SCAN, 0, 0, <<>>)
ResultsNotification == Data(NL80211_CMD_NEW_SCAN_RESULTS, 0, 0, <<>>)
AbortedNotification == Data(NL80211_CMD_SCAN_ABORTED, 0, 0, <<>>)
\* a NEW_SCAN_RESULTS message that answers some process's request
StrayResults == Data(NL80211_CMD_NEW_SCAN_RESULTS, 7, 555, <<>>)

(***************************************************************************)
(* The notification handler and the flags of one wifi_scan_all call.       *)
(***************************************************************************)
\* a variant of the handler that takes every NEW_SCAN_RESULTS message for
\* the broadcast, whoever it is addressed to
handle_NL80211_MULTICAST_GROUP_SCAN_any_sender(msg, context) ==
  IF msg.cmd = NL80211_CMD_TRIGGER_SCAN
  THEN [context EXCEPT !.scan_triggered = 1]
  ELSE IF msg.cmd = NL80211_CMD_NEW_SCAN_RESULTS
  THEN [context EXCEPT !.new_scan_results = 1]
  ELSE context

\* handle_NL80211_MULTICAST_GROUP_SCAN: the context afterwards (the status
\* is MNL_CB_OK on every path)
handle_NL80211_MULTICAST_GROUP_SCAN(msg, context) ==
  IF msg.cmd = NL80211_CMD_TRIGGER_SCAN
  THEN [context EXCEPT !.scan_triggered = 1]
  ELSE IF msg.cmd = NL80211_CMD_NEW_SCAN_RESULTS
  THEN IF msg.pid = 0 /\ msg.seq = 0
       THEN [context EXCEPT !.new_scan_results = 1]
       ELSE context
  ELSE context

\* mnl_cb_run(buf, ret, 0, 0, handle_NL80211_MULTICAST_GROUP_SCAN, ...) on a
\* datagram of the notification socket: [context, ret]
notification_cb_run(msg, context) ==
  CASE msg.kind = "error" ->
         [context |-> context,
          ret |-> IF msg.error = 0 THEN MNL_CB_STOP ELSE MNL_CB_ERROR]
    [] msg.kind = "done" -> [context |-> context, ret |-> MNL_CB_STOP]
    [] OTHER -> [context |-> handle_NL80211_MULTICAST_GROUP_SCAN(msg, context),
                 ret |-> MNL_CB_OK]

\* a variant of the condition that looks at the fresh-results flag only
TriggerNecessaryWithoutResults(context) == context.new_scan_results = 0

\* the condition of trigger_scan_if_necessary
TriggerNecessary(context) ==
  context.new_scan_results = 0 /\ context.scan_triggered = 0

\* the caller's array before the call: every field holds the caller's value
CallerBss == Bss(<<77, 77, 77, 77, 77, 77>>, 77, <<77>>, 77, 77, 77)
CallerStation == Station(<<77, 77, 77, 77, 77, 77>>, <<77>>, 77, 77, 77, 77)

\* what the uninitialized local `struct bss_info bss` of wifi_scan_station
\* may hold: whatever the stack held
StackBss ==
  { Bss(<<0, 0, 0, 0, 0, 0>>, 0, <<>>, 0, 0, 0),
    Bss(<<85, 85, 85, 85, 85, 85>>, 85, <<85>>, 85, 85, 85) }

\* struct context_NL80211_CMD_NEW_SCAN_RESULTS over an array of cap records
\* that all hold `initial`; written and memory_error record which slots were
\* written and whether memory outside the array or payload was touched
ScanResults(cap, initial) ==
  [bss_infos |-> [i \in 0..(cap - 1) |-> initial], bss_infos_length |-> cap,
   scanned |-> 0, written |-> {}, memory_error |-> FALSE]

NoScanResults == ScanResults(0, CallerBss)
NoScanning == [new_scan_results |-> 0, scan_triggered |-> 0]
\* bookkeeping of one API call: its name and arguments, which of the
\* FamilyReplies wifi_scan_init received (0: none), whether it started
\* with no scan running and nothing pending, the commands it sent on the
\* command channel, the step that made it fail, the values get_scan and
\* get_station returned, and the value it returns
NoPrev == [op |-> "none", ok |-> TRUE, quiet |-> FALSE]
NoCall == [op |-> "none", interface |-> "none", reply |-> 0, capacity |-> 0,
           quiet |-> FALSE, sent |-> <<>>, failed |-> "none",
           get_scan_ret |-> 0, get_station_ret |-> 0, result |-> 0]


(***************************************************************************)
(* The state machine.                                                      *)
(***************************************************************************)
Init ==
  /\ pc = "start"
  /\ wifi = [notification_channel |-> ZeroChannel,
             command_channel |-> ZeroChannel]
  /\ heap = [r \in Resources |-> [acquired |-> 0, released |-> 0]]
  /\ sock = [s \in Sockets |-> [nonblock |-> FALSE, groups |-> {}]]
  /\ scanning = NoScanning
  /\ scan_results = NoScanResults
  /\ station = CallerStation
  /\ notif_queue = <<>>
  /\ kernel \in [scanning : {FALSE}, competitor : BOOLEAN,
                 dump_limit : {MaxScanDump}, dump_msgs : {ScanDumpMsgs},
                 entry : {<<>>}]
  /\ dump = <<>>
  /\ call = NoCall
  /\ prev = NoPrev
  /\ count = [calls |-> 0, closes |-> 0]
  /\ ret = 0

\* the reply to CTRL_CMD_GETFAMILY that wifi_scan_init received, 0 when it
\* failed before it received one; step is the step that failed
FamilyReplySeen(env, step) ==
  IF /\ env.calloc_ok
     /\ env.send_ok
     /\ step \notin {"if_nametoindex", "mnl_socket_open", "mnl_socket_bind"}
  THEN env.reply ELSE 0

\* wifi_scan_init: calloc, two mallocs, wifi_scan_init_internal, and on
\* failure wifi_scan_close and NULL (ret 0); ret 1 stands for the handle
wifi_scan_init ==
  /\ pc = "start"
  /\ \E interface \in Interfaces, env \in InitEnv :
     \E h0 \in {Acquire(Acquire(heap, "buffer1"), "buffer2")} :
     \E r \in {wifi_scan_init_internal(wifi, Acquire(h0, "wifi"), sock,
                                       interface, env)} :
     \E c \in {[NoCall EXCEPT !.op = "wifi_scan_init",
                              !.interface = interface,
                              !.reply = FamilyReplySeen(env, r.step)]} :
          IF ~env.calloc_ok
          THEN /\ heap' = h0
               /\ pc' = "init_failed"
               /\ call' = [c EXCEPT !.failed = "calloc"]
               /\ ret' = 0
               /\ UNCHANGED <<wifi, sock>>
          ELSE IF ~r.ok
          THEN /\ heap' = wifi_scan_close_heap(r.wifi, r.heap)
               /\ wifi' = r.wifi
               /\ pc' = "init_failed"
               /\ call' = [c EXCEPT !.failed = r.step]
               /\ ret' = 0
               /\ UNCHANGED sock
          ELSE /\ heap' = r.heap
               /\ wifi' = r.wifi
               /\ sock' = r.sock
               /\ pc' = "ready"
               /\ call' = c
               /\ ret' = 1
  /\ UNCHANGED <<scanning, scan_results, station, notif_queue,
                 kernel, dump, prev, count>>


\* wifi_scan_close on a handle wifi_scan_init returned; a close of a handle
\* closed before frees freed memory, after which the process may go on or
\* be killed
wifi_scan_close ==
  /\ pc \in {"ready", "closed"}
  /\ count.closes < MaxCloses
  /\ heap' = wifi_scan_close_heap(wifi, heap)
  /\ pc' \in IF DoubleReleased(heap') = {} THEN {"closed"}
             ELSE {"closed", "crashed"}
  /\ call' = [NoCall EXCEPT !.op = "wifi_scan_close"]
  /\ count' = [count EXCEPT !.closes = @ + 1]
  /\ prev' = prev
  /\ ret' = 0
  /\ UNCHANGED <<wifi, sock, scanning, scan_results, station,
                 notif_queue, kernel, dump>>

\* set_channel_non_blocking / set_channel_blocking: the socket table after
\* the two fcntl calls succeeded
set_channel_non_blocking(sk, s) == [sk EXCEPT ![s].nonblock = TRUE]
set_channel_blocking(sk, s) == [sk EXCEPT ![s].nonblock = FALSE]

\* the API call ends with `result`; `step` names what failed ("none": nothing)
Finish(c, result, step) == [c EXCEPT !.result = result, !.failed = step]

\* wifi_scan_all up to the first receive of read_past_notifications: the
\* two contexts are set up and the notification socket goes non-blocking
wifi_scan_all ==
  /\ pc = "ready"
  /\ count.calls < MaxCalls
  /\ count' = [count EXCEPT !.calls = @ + 1]
  /\ \E cap \in 0..MaxCap, fcntl_ok \in BOOLEAN :
       LET c == [NoCall EXCEPT !.op = "wifi_scan_all", !.capacity = cap,
                               !.quiet = (~kernel.scanning
                                          /\ notif_queue = <<>>)]
       IN /\ scanning' = NoScanning
          /\ scan_results' = ScanResults(cap, CallerBss)
          /\ IF fcntl_ok
             THEN /\ sock' = set_channel_non_blocking(sock,
                               wifi.notification_channel.nl)
                  /\ call' = c
                  /\ pc' = "drain"
             ELSE /\ sock' = sock
                  /\ call' = Finish(c, -1, "read_past_notifications")
                  /\ pc' = "return"
  /\ ret' = 0
  /\ UNCHANGED <<wifi, heap, station, notif_queue, kernel, dump, prev>>

\* a variant of the turn of the loop that takes the newest pending
\* datagram first
read_past_notifications_recv_newest ==
  /\ pc = "drain"
  /\ notif_queue # <<>>
  /\ \E r \in {notification_cb_run(notif_queue[Len(notif_queue)], scanning)} :
        /\ notif_queue' = SubSeq(notif_queue, 1, Len(notif_queue) - 1)
        /\ scanning' = r.context
        /\ IF r.ret <= 0
           THEN /\ call' = Finish(call, -1, "read_past_notifications")
                /\ pc' = "return"
           ELSE UNCHANGED <<call, pc>>
  /\ UNCHANGED <<wifi, heap, sock, scan_results, station, kernel,
                 dump, prev, count, ret>>

\* read_past_notifications, one turn of the loop: a pending datagram is
\* received and run through the notification handler
read_past_notifications_recv ==
  /\ pc = "drain"
  /\ notif_queue # <<>>
  /\ \E r \in {notification_cb_run(Head(notif_queue), scanning)} :
        /\ notif_queue' = Tail(notif_queue)
        /\ scanning' = r.context
        /\ IF r.ret <= 0
           THEN /\ call' = Finish(call, -1, "read_past_notifications")
                /\ pc' = "return"
           ELSE UNCHANGED <<call, pc>>
  /\ UNCHANGED <<wifi, heap, sock, scan_results, station, kernel,
                 dump, prev, count, ret>>

\* read_past_notifications: nothing is pending (EWOULDBLOCK), the loop ends
\* and set_channel_blocking decides the result
read_past_notifications_done ==
  /\ pc = "drain"
  /\ notif_queue = <<>>
  /\ \E fcntl_ok \in BOOLEAN :
       IF fcntl_ok
       THEN /\ sock' = set_channel_blocking(sock,
                         wifi.notification_channel.nl)
            /\ pc' = "trigger"
            /\ call' = call
       ELSE /\ sock' = sock
            /\ call' = Finish(call, -1, "read_past_notifications")
            /\ pc' = "return"
  /\ UNCHANGED <<wifi, heap, scanning, scan_results, station,
                 notif_queue, kernel, dump, prev, count, ret>>

\* read_past_notifications: the receive fails with another errno
read_past_notifications_error ==
  /\ pc = "drain"
  /\ call' = Finish(call, -1, "read_past_notifications")
  /\ pc' = "return"
  /\ UNCHANGED <<wifi, heap, sock, scanning, scan_results, station, notif_queue, kernel, dump, prev, count, ret>>

\* a result [ret, channel, ctx] together with the commands sent for it
WithSent(r, sent) ==
  [ret |-> r.ret, channel |-> r.channel, ctx |-> r.ctx, sent |-> sent]

\* trigger_scan: [ret, channel, ctx, sent]
trigger_scan(channel, send_ok, replies, ctx) ==
  IF ~send_ok
  THEN [ret |-> MNL_CB_ERROR, channel |-> channel, ctx |-> ctx,
        sent |-> <<NL80211_CMD_TRIGGER_SCAN>>]
  ELSE WithSent(receive_nl_message(channel,
                  mnl_socket_get_portid(channel.nl), replies,
                  "handle_NL80211_CMD_NEW_SCAN_RESULTS", ctx),
                <<NL80211_CMD_TRIGGER_SCAN>>)

\* a variant that sends the request a second time when the first exchange
\* failed
trigger_scan_if_necessary_retry(channel, context, send_ok, replies, ctx) ==
  IF ~TriggerNecessary(context)
  THEN [ret |-> 0, channel |-> channel, ctx |-> ctx, sent |-> <<>>]
  ELSE IF trigger_scan(channel, send_ok, replies, ctx).ret # -1
  THEN [trigger_scan(channel, send_ok, replies, ctx) EXCEPT !.ret = 0]
  ELSE [trigger_scan(trigger_scan(channel, send_ok, replies, ctx).channel,
                     send_ok, replies, ctx)
          EXCEPT !.sent = <<NL80211_CMD_TRIGGER_SCAN,
                            NL80211_CMD_TRIGGER_SCAN>>]

\* trigger_scan_if_necessary: [ret, channel, ctx, sent]
trigger_scan_if_necessary(channel, context, send_ok, replies, ctx) ==
  IF TriggerNecessary(context)
  THEN [trigger_scan(channel, send_ok, replies, ctx)
          EXCEPT !.ret = IF @ = -1 THEN -1 ELSE 0]
  ELSE [ret |-> 0, channel |-> channel, ctx |-> ctx, sent |-> <<>>]

\* the trigger step of wifi_scan_all.  The kernel answers a request it
\* received with an ACK (the scan starts and the trigger is broadcast), with
\* an error (busy), or the receive fails, before or after the kernel
\* accepted the request.
wifi_scan_all_trigger ==
  /\ pc = "trigger"
  /\ \E send_ok \in BOOLEAN, t \in {"ack", "nack", "EIO"},
        accepted \in BOOLEAN :
       /\ t = "ack" => accepted
       /\ t = "nack" => ~accepted
       /\ accepted => (send_ok /\ ~kernel.scanning
                       /\ TriggerNecessary(scanning))
       /\ \E ch \in {wifi.command_channel} :
          \E r \in {trigger_scan_if_necessary(ch, scanning, send_ok,
                      << Terminal(t, ch.sequence,
                                  mnl_socket_get_portid(ch.nl)) >>,
                      scan_results)} :
             /\ wifi' = [wifi EXCEPT !.command_channel = r.channel]
             /\ scan_results' = r.ctx
             /\ IF r.ret = -1
                THEN /\ call' = Finish([call EXCEPT !.sent = @ \o r.sent],
                                       -1, "trigger_scan_if_necessary")
                     /\ pc' = "return"
                ELSE /\ call' = [call EXCEPT !.sent = @ \o r.sent]
                     /\ pc' = "wait"
       /\ IF accepted
          THEN /\ kernel' = [kernel EXCEPT !.scanning = TRUE]
               /\ notif_queue' = Append(notif_queue, TriggerNotification)
          ELSE UNCHANGED <<kernel, notif_queue>>
  /\ UNCHANGED <<heap, sock, scanning, station, dump, prev, count, ret>>

\* a variant of the wait with a timeout: it also ends when nothing is
\* pending on the socket
wait_for_new_scan_results_timeout ==
  /\ pc = "wait"
  /\ (scanning.new_scan_results # 0 \/ notif_queue = <<>>)
  /\ pc' = "get_scan"
  /\ UNCHANGED <<wifi, heap, sock, scanning, scan_results, station, notif_queue, kernel, dump, call, prev, count, ret>>

\* a variant of the wait that ends whether or not results were announced
wait_for_new_scan_results_unconditional ==
  /\ pc = "wait"
  /\ pc' = "get_scan"
  /\ UNCHANGED <<wifi, heap, sock, scanning, scan_results, station, notif_queue, kernel, dump, call, prev, count, ret>>

\* wait_for_new_scan_results: the loop condition is false, the wait is over
wait_for_new_scan_results_done ==
  /\ pc = "wait"
  /\ scanning.new_scan_results # 0
  /\ pc' = "get_scan"
  /\ UNCHANGED <<wifi, heap, sock, scanning, scan_results, station, notif_queue, kernel, dump, call, prev, count, ret>>

\* a variant of the wait that reads the datagram with MSG_PEEK and so
\* leaves it pending on the socket
wait_for_new_scan_results_peek ==
  /\ pc = "wait"
  /\ scanning.new_scan_results = 0
  /\ notif_queue # <<>>
  /\ \E r \in {notification_cb_run(Head(notif_queue), scanning)} :
        /\ notif_queue' = IF r.context.new_scan_results # 0
                          THEN notif_queue ELSE Tail(notif_queue)
        /\ scanning' = r.context
        /\ IF r.ret <= 0
           THEN /\ call' = Finish(call, -1, "wait_for_new_scan_results")
                /\ pc' = "return"
           ELSE UNCHANGED <<call, pc>>
  /\ UNCHANGED <<wifi, heap, sock, scan_results, station, kernel,
                 dump, prev, count, ret>>

\* wait_for_new_scan_results, one turn of the loop: the blocking receive
\* returns a datagram, which is run through the notification handler
wait_for_new_scan_results_recv ==
  /\ pc = "wait"
  /\ scanning.new_scan_results = 0
  /\ notif_queue # <<>>
  /\ \E r \in {notification_cb_run(Head(notif_queue), scanning)} :
        /\ notif_queue' = Tail(notif_queue)
        /\ scanning' = r.context
        /\ IF r.ret <= 0
           THEN /\ call' = Finish(call, -1, "wait_for_new_scan_results")
                /\ pc' = "return"
           ELSE UNCHANGED <<call, pc>>
  /\ UNCHANGED <<wifi, heap, sock, scan_results, station, kernel,
                 dump, prev, count, ret>>

\* wait_for_new_scan_results: the blocking receive fails
wait_for_new_scan_results_error ==
  /\ pc = "wait"
  /\ scanning.new_scan_results = 0
  /\ call' = Finish(call, -1, "wait_for_new_scan_results")
  /\ pc' = "return"
  /\ UNCHANGED <<wifi, heap, sock, scanning, scan_results, station, notif_queue, kernel, dump, prev, count, ret>>

\* what the API call does once get_scan returned get_scan_ret with context sr:
\* wifi_scan_all returns sr.scanned whatever get_scan returned;
\* wifi_scan_station returns 0 after an error or with nothing scanned, and
\* goes on to get_station otherwise.  [call, pc]
wifi_scan_all_result(get_scan_ret, sr) == sr.scanned
StationFound(get_scan_ret, sr) ==
  get_scan_ret # MNL_CB_ERROR /\ sr.scanned # 0
AfterGetScan(c, get_scan_ret, sr) ==
  IF c.op = "wifi_scan_all"
  THEN [call |-> Finish([c EXCEPT !.get_scan_ret = get_scan_ret],
                        wifi_scan_all_result(get_scan_ret, sr), "none"),
        pc |-> "return"]
  ELSE IF StationFound(get_scan_ret, sr)
  THEN [call |-> [c EXCEPT !.get_scan_ret = get_scan_ret],
        pc |-> "get_station"]
  ELSE [call |-> Finish([c EXCEPT !.get_scan_ret = get_scan_ret], 0,
                        IF get_scan_ret = MNL_CB_ERROR
                        THEN "get_scan" ELSE "none"),
        pc |-> "return"]

\* get_scan, the request: prepare_nl_message and send_nl_message; a failed
\* send makes get_scan return MNL_CB_ERROR at once
get_scan_send ==
  /\ pc = "get_scan"
  /\ \E send_ok \in BOOLEAN :
     \E c \in {[call EXCEPT !.sent = Append(@, NL80211_CMD_GET_SCAN)]} :
     \E a \in {AfterGetScan(c, MNL_CB_ERROR, scan_results)} :
          IF send_ok
          THEN /\ call' = c
               /\ pc' = "get_scan_recv"
          ELSE /\ call' = a.call
               /\ pc' = a.pc
  /\ UNCHANGED <<wifi, heap, sock, scanning, scan_results, station,
                 notif_queue, kernel, dump, prev, count, ret>>

\* receive_nl_message within get_scan, one turn of the loop: the kernel
\* sends the next message of the dump and mnl_cb_run checks its sequence
\* number and port id and hands it to handle_NL80211_CMD_NEW_SCAN_RESULTS,
\* which returns MNL_CB_OK; a message mnl_cb_run rejects ends the loop:
\* ++sequence, and get_scan returns to the API call
get_scan_recv ==
  /\ pc = "get_scan_recv"
  /\ Len(dump) < kernel.dump_limit
  /\ \E i \in kernel.dump_msgs :
     \E ch \in {wifi.command_channel} :
     \E r \in {mnl_cb_run(DumpMsg(i, ch.sequence,
                                  mnl_socket_get_portid(ch.nl)),
                          ch.sequence, mnl_socket_get_portid(ch.nl),
                          "handle_NL80211_CMD_NEW_SCAN_RESULTS",
                          scan_results)} :
       /\ scan_results' = r.ctx
       /\ dump' = Append(dump, i)
       /\ IF r.ret <= 0
          THEN \E a \in {AfterGetScan(call, r.ret, r.ctx)} :
                 /\ wifi' = [wifi EXCEPT !.command_channel =
                               receive_nl_message_return(ch, r).channel]
                 /\ call' = a.call
                 /\ pc' = a.pc
          ELSE UNCHANGED <<pc, wifi, call>>
  /\ UNCHANGED <<heap, sock, scanning, station, notif_queue, kernel, prev,
                 count, ret>>

\* receive_nl_message within get_scan, the last turn: NLMSG_DONE ends the
\* dump, or an error message or a failed receive does; ++sequence, and
\* get_scan returns to the API call
get_scan_end ==
  /\ pc = "get_scan_recv"
  /\ \E t \in {"done", "nack", "EIO"} :
     \E ch \in {wifi.command_channel} :
     \E r \in {receive_nl_message(ch, mnl_socket_get_portid(ch.nl),
                  << Terminal(t, ch.sequence,
                              mnl_socket_get_portid(ch.nl)) >>,
                  "handle_NL80211_CMD_NEW_SCAN_RESULTS", scan_results)} :
     \E a \in {AfterGetScan(call, r.ret, r.ctx)} :
          /\ wifi' = [wifi EXCEPT !.command_channel = r.channel]
          /\ call' = a.call
          /\ pc' = a.pc
  /\ UNCHANGED <<heap, sock, scanning, scan_results, station, notif_queue,
                 kernel, dump, prev, count, ret>>

\* the replies the kernel may give to NL80211_CMD_GET_STATION
StaInfo(attrs) == Attr(NL80211_ATTR_STA_INFO, 4 * Len(attrs), attrs)
StationReplies(seq, pid) ==
  << << Data(NL80211_CMD_NEW_STATION, seq, pid,
             << StaInfo(<< Attr(NL80211_STA_INFO_SIGNAL, 1, 200),
                           Attr(NL80211_STA_INFO_RX_PACKETS, 4, 11),
                           Attr(NL80211_STA_INFO_TX_PACKETS, 4, 12) >>) >>),
        Ack(seq, pid) >>,
     << Data(NL80211_CMD_NEW_STATION, seq, pid,
             << StaInfo(<< Attr(NL80211_STA_INFO_RX_PACKETS, 4, 11) >>) >>),
        Ack(seq, pid) >>,
     << Data(NL80211_CMD_NEW_STATION, seq, pid, <<>>), Ack(seq, pid) >>,
     << Nack(seq, pid) >>,
     << RecvError >> >>

\* get_station: [ret, channel, ctx]
get_station(channel, send_ok, replies, ctx) ==
  IF ~send_ok
  THEN [ret |-> MNL_CB_ERROR, channel |-> channel, ctx |-> ctx]
  ELSE receive_nl_message(channel, mnl_socket_get_portid(channel.nl),
                          replies, "handle_NL80211_CMD_NEW_STATION", ctx)

\* wifi_scan_station up to get_scan: the context for a dump of capacity 1
\* into the uninitialized local bss
wifi_scan_station ==
  /\ pc = "ready"
  /\ count.calls < MaxCalls
  /\ count' = [count EXCEPT !.calls = @ + 1]
  /\ \E stack \in StackBss : scan_results' = ScanResults(1, stack)
  /\ call' = [NoCall EXCEPT !.op = "wifi_scan_station", !.capacity = 1]
  /\ pc' = "get_scan"
  /\ station' = CallerStation
  /\ scanning' = NoScanning
  /\ dump' = <<>>
  /\ ret' = 0
  /\ UNCHANGED <<wifi, heap, sock, notif_queue, kernel, prev>>

\* the three fields wifi_scan_station copies from the BSS record
CopyBss(st, bss) ==
  [st EXCEPT !.bssid = bss.bssid, !.ssid = bss.ssid, !.status = bss.status]

\* the rest of wifi_scan_station: get_station for bss.bssid, then the copy
wifi_scan_station_get_station ==
  /\ pc = "get_station"
  /\ \E send_ok \in BOOLEAN, reply \in 1..5 :
     \E ch \in {wifi.command_channel} :
     \E r \in {get_station(ch, send_ok,
                            StationReplies(ch.sequence,
                              mnl_socket_get_portid(ch.nl))[reply],
                            station)} :
     \E c \in {[call EXCEPT !.sent = Append(@, NL80211_CMD_GET_STATION),
                             !.get_station_ret = r.ret]} :
          /\ wifi' = [wifi EXCEPT !.command_channel = r.channel]
          /\ IF r.ret = MNL_CB_ERROR
             THEN /\ station' = r.ctx
                  /\ call' = Finish(c, 0, "get_station")
             ELSE /\ station' = CopyBss(r.ctx, scan_results.bss_infos[0])
                  /\ call' = Finish(c, 1, "none")
          /\ pc' = "return"
  /\ UNCHANGED <<heap, sock, scanning, scan_results, notif_queue, kernel,
                 dump, prev, count, ret>>

\* the return of wifi_scan_all / wifi_scan_station: the caller gets the
\* value, the contexts and locals of the call are gone
api_return ==
  /\ pc = "return"
  /\ ret' = call.result
  /\ prev' = [op |-> call.op, ok |-> call.failed = "none",
              quiet |-> call.quiet]
  /\ call' = NoCall
  /\ pc' = "ready"
  /\ scanning' = NoScanning
  /\ scan_results' = NoScanResults
  /\ station' = CallerStation
  /\ dump' = <<>>
  /\ UNCHANGED <<wifi, heap, sock, notif_queue, kernel, count>>

(***************************************************************************)
(* The environment: the driver and other processes using the device.       *)
(***************************************************************************)
\* the notification socket is open and subscribed, and the call is at a
\* point where it reads the notification socket next
Listening == pc \in {"ready", "drain", "trigger", "wait"}

\* the running scan completes: NEW_SCAN_RESULTS is broadcast
KernelScanDone ==
  /\ Listening
  /\ kernel.scanning
  /\ kernel' = [kernel EXCEPT !.scanning = FALSE]
  /\ notif_queue' = Append(notif_queue, ResultsNotification)
  /\ UNCHANGED <<pc, wifi, heap, sock, scanning, scan_results, station,
                 dump, call, prev, count, ret>>

\* the running scan is aborted: SCAN_ABORTED is broadcast
KernelScanAborted ==
  /\ Listening
  /\ kernel.scanning
  /\ kernel' = [kernel EXCEPT !.scanning = FALSE]
  /\ notif_queue' = Append(notif_queue, AbortedNotification)
  /\ UNCHANGED <<pc, wifi, heap, sock, scanning, scan_results, station,
                 dump, call, prev, count, ret>>

\* another process triggers a scan: TRIGGER_SCAN is broadcast
OtherProcessTrigger ==
  /\ Listening
  /\ kernel.competitor
  /\ ~kernel.scanning
  /\ Len(notif_queue) < MaxQueue
  /\ kernel' = [kernel EXCEPT !.scanning = TRUE]
  /\ notif_queue' = Append(notif_queue, TriggerNotification)
  /\ UNCHANGED <<pc, wifi, heap, sock, scanning, scan_results, station,
                 dump, call, prev, count, ret>>

\* a NEW_SCAN_RESULTS message addressed to another process's request shows
\* up on the notification socket
OtherProcessReply ==
  /\ Listening
  /\ kernel.competitor
  /\ Len(notif_queue) < MaxQueue
  /\ notif_queue' = Append(notif_queue, StrayResults)
  /\ UNCHANGED <<pc, wifi, heap, sock, scanning, scan_results, station,
                 kernel, dump, call, prev, count, ret>>

Next ==
  \/ wifi_scan_init
  \/ wifi_scan_close
  \/ wifi_scan_all
  \/ read_past_notifications_recv
  \/ read_past_notifications_done
  \/ read_past_notifications_error
  \/ wifi_scan_all_trigger
  \/ wait_for_new_scan_results_done
  \/ wait_for_new_scan_results_recv
  \/ wait_for_new_scan_results_error
  \/ get_scan_send
  \/ get_scan_recv
  \/ get_scan_end
  \/ wifi_scan_station
  \/ wifi_scan_station_get_station
  \/ api_return
  \/ KernelScanDone
  \/ KernelScanAborted
  \/ OtherProcessTrigger
  \/ OtherProcessReply

\* the library from wifi_scan_init on, against a driver whose dumps hold at
\* most MaxScanDump messages
Spec == Init /\ [][Next]_vars

\* the same library, with the progress the code makes by itself: the
\* single thread goes on to its next statement, a receive returns when a
\* datagram is pending, and a loop whose condition is false ends.  What the
\* caller, the driver and the other processes do, and the failures of
\* system calls, may or may not happen.
SpecLive ==
  /\ Init
  /\ [][Next]_vars
  /\ WF_vars(read_past_notifications_recv)
  /\ WF_vars(read_past_notifications_done)
  /\ WF_vars(wait_for_new_scan_results_recv)
  /\ WF_vars(wait_for_new_scan_results_done)
  /\ WF_vars(get_scan_send)

(***************************************************************************)
(* The dump parser against a driver that sends any of its messages.        *)
(***************************************************************************)
\* the handle wifi_scan_init returns for wlan0 when every step succeeds
ReadyEnv ==
  [calloc_ok |-> TRUE, open1 |-> TRUE, bind1 |-> TRUE, send_ok |-> TRUE,
   reply |-> 1, vanished |-> FALSE, open2 |-> TRUE, bind2 |-> TRUE,
   subscribe_ok |-> TRUE]
ReadyHandle ==
  wifi_scan_init_internal(
    [notification_channel |-> ZeroChannel, command_channel |-> ZeroChannel],
    Acquire(Acquire(Acquire([r \in Resources |->
                               [acquired |-> 0, released |-> 0]],
                            "buffer1"), "buffer2"), "wifi"),
    [s \in Sockets |-> [nonblock |-> FALSE, groups |-> {}]],
    "wlan0", ReadyEnv)

\* a handle just initialized, with one call left to make on it, no other
\* process scanning, and a driver whose dumps hold up to MaxDump messages
InitDump ==
  /\ pc = "ready"
  /\ \E r \in {ReadyHandle} : /\ wifi = r.wifi
                               /\ heap = r.heap
                               /\ sock = r.sock
  /\ scanning = NoScanning
  /\ scan_results = NoScanResults
  /\ station = CallerStation
  /\ notif_queue = <<>>
  /\ kernel = [scanning |-> FALSE, competitor |-> FALSE,
               dump_limit |-> MaxDump, dump_msgs |-> 1..NDumpMsg,
               entry |-> <<>>]
  /\ dump = <<>>
  /\ call = [NoCall EXCEPT !.op = "wifi_scan_init", !.interface = "wlan0",
                           !.reply = ReadyEnv.reply]
  /\ prev = NoPrev
  /\ count = [calls |-> MaxCalls - 1, closes |-> 0]
  /\ ret = 1

NextDump ==
  \/ wifi_scan_all
  \/ read_past_notifications_done
  \/ read_past_notifications_error
  \/ wifi_scan_all_trigger
  \/ wait_for_new_scan_results_done
  \/ wait_for_new_scan_results_recv
  \/ wait_for_new_scan_results_error
  \/ get_scan_send
  \/ get_scan_recv
  \/ get_scan_end
  \/ wifi_scan_station
  \/ wifi_scan_station_get_station
  \/ api_return
  \/ KernelScanDone
  \/ KernelScanAborted

SpecDump == InitDump /\ [][NextDump]_vars

(***************************************************************************)
(* The attribute parsers against a driver that sends a BSS entry put       *)
(* together from any attributes, well-formed or not.                       *)
(***************************************************************************)
\* the sequences of at most n elements of S
RECURSIVE SeqsUpTo(_, _)
SeqsUpTo(S, n) ==
  IF n = 0 THEN {<<>>}
  ELSE SeqsUpTo(S, n - 1)
       \cup {Append(q, x) : q \in SeqsUpTo(S, n - 1), x \in S}

\* attributes a BSS entry is put together from: a BSSID of 6 and of 5
\* bytes, a frequency of 4 bytes (two values) and of 2 bytes, an attribute
\* the validation table does not list, and one past NL80211_BSS_MAX
BssidOk == Attr(NL80211_BSS_BSSID, 6, <<9, 9, 9, 9, 9, 9>>)
BssidShort == Attr(NL80211_BSS_BSSID, 5, <<9, 9, 9, 9, 9>>)
FreqOk == Attr(NL80211_BSS_FREQUENCY, 4, 2409)
FreqOther == Attr(NL80211_BSS_FREQUENCY, 4, 2410)
FreqShort == Attr(NL80211_BSS_FREQUENCY, 2, 9)
Unlisted == Attr(NL80211_BSS_FREQUENCY + 1, 8, 9)
OutOfRange == Attr(NL80211_BSS_MAX + 1, 4, 9)
AttrSamples ==
  {BssidOk, BssidShort, FreqOk, FreqOther, FreqShort, Unlisted, OutOfRange}

\* information-element payloads: every byte string of up to MaxIe bytes
\* over IeBytes, and three long ones: an SSID of 32 bytes, a declared
\* length of 33 with 33 bytes behind it, and a declared length of 32 with
\* 31 bytes behind it.  The byte behind a payload of one byte (padding of
\* the attribute) is 0 or 255.
IeBytes == {0, 1, 2, 65, 255}
Letters(n) == [i \in 1..n |-> 65]
LongIePayloads ==
  { <<0, 32>> \o Letters(32), <<0, 33>> \o Letters(33),
    <<0, 32>> \o Letters(31) }
IePayloads == SeqsUpTo(IeBytes, MaxIe) \cup LongIePayloads
IeValues ==
  {[bytes |-> p, next |-> 0] : p \in IePayloads}
  \cup {[bytes |-> p, next |-> 255] : p \in {q \in IePayloads : Len(q) = 1}}

\* the BSS entries the driver may hold: up to MaxAttrs of the attributes
\* above, or one information-elements attribute
WireEntries ==
  SeqsUpTo(AttrSamples, MaxAttrs)
  \cup {<< Attr(NL80211_BSS_INFORMATION_ELEMENTS, Len(v.bytes), v) >> :
          v \in IeValues}

\* a handle just initialized, with one call left to make on it, and a
\* driver that holds one such entry
InitWire ==
  /\ pc = "ready"
  /\ \E r \in {ReadyHandle} : /\ wifi = r.wifi
                               /\ heap = r.heap
                               /\ sock = r.sock
  /\ scanning = NoScanning
  /\ scan_results = NoScanResults
  /\ station = CallerStation
  /\ notif_queue = <<>>
  /\ \E e \in WireEntries :
       kernel = [scanning |-> FALSE, competitor |-> FALSE,
                 dump_limit |-> MaxWireDump,
                 dump_msgs |-> {WireMsg, DuplicateMsg, ShortIfindexMsg},
                 entry |-> e]
  /\ dump = <<>>
  /\ call = [NoCall EXCEPT !.op = "wifi_scan_init", !.interface = "wlan0",
                           !.reply = ReadyEnv.reply]
  /\ prev = NoPrev
  /\ count = [calls |-> MaxCalls - 1, closes |-> 0]
  /\ ret = 1

SpecWire == InitWire /\ [][NextDump]_vars

(***************************************************************************)
(* Properties.  What a dump sent is read off `dump`, the message numbers   *)
(* the driver sent, and off BssTable, not off what the parser stored.      *)
(***************************************************************************)
\* the status the driver reported for entry i of its table
EntryStatus(i) ==
  IF BssTable[i].status = <<>> THEN BSS_NONE ELSE BssTable[i].status[1]

\* positions in the dump of the BSS entries, and of the associated ones
BssEntriesInDump ==
  {j \in 1..Len(dump) : IsBssEntry(DumpMsg(dump[j], 0, 0))}
AssociatedInDump ==
  {j \in BssEntriesInDump : IsAssociated(EntryStatus(dump[j]))}
LastOf(positions) ==
  CHOOSE j \in positions : \A l \in positions : l <= j
FirstOf(positions) ==
  CHOOSE j \in positions : \A l \in positions : j <= l

\* the table entry that slot 0 is for: the associated entry that came last,
\* or without an associated entry the BSS entry that came first
SlotZeroEntry ==
  IF AssociatedInDump # {} THEN dump[LastOf(AssociatedInDump)]
  ELSE dump[FirstOf(BssEntriesInDump)]

\* record b holds the status of table entry i and every attribute it carries
HoldsEntry(b, i) ==
  LET e == BssTable[i] IN
  /\ b.status = EntryStatus(i)
  /\ "bssid" \in e.fields => b.bssid = <<e.k, e.k, e.k, e.k, e.k, e.k>>
  /\ "frequency" \in e.fields => b.frequency = 2400 + e.k
  /\ "ssid" \in e.fields => b.ssid = <<64 + e.k, 65>>
  /\ "signal" \in e.fields => b.signal_mbm = 10 * e.k
  /\ "seen" \in e.fields => b.seen_ms_ago = e.k

\* every field of b whose attribute table entry i lacks holds what `before`
\* held (the status aside, which the parser always assigns)
AbsentFieldsKept(b, i, before) ==
  LET e == BssTable[i] IN
  /\ "bssid" \notin e.fields => b.bssid = before.bssid
  /\ "frequency" \notin e.fields => b.frequency = before.frequency
  /\ "ssid" \notin e.fields => b.ssid = before.ssid
  /\ "signal" \notin e.fields => b.signal_mbm = before.signal_mbm
  /\ "seen" \notin e.fields => b.seen_ms_ago = before.seen_ms_ago

InCall(op) == call.op = op
Returning(op) == pc = "return" /\ call.op = op
TriggersSent ==
  Cardinality({i \in DOMAIN call.sent :
                 call.sent[i] = NL80211_CMD_TRIGGER_SCAN})

\* C1: wifi_scan_all returns -1 whenever a phase of the call failed: the
\* drain, the TRIGGER_SCAN exchange, the wait, or the GET_SCAN dump exchange
\* (get_scan returned MNL_CB_ERROR).
C1_FailedPhaseReturnsMinusOne ==
  (Returning("wifi_scan_all")
     /\ (call.failed # "none" \/ call.get_scan_ret = MNL_CB_ERROR))
  => call.result = -1

\* C1, the run that refutes it: the dump delivered one BSS entry, then the
\* exchange failed, and wifi_scan_all returns 1
C1_DumpFailedCountReturned ==
  /\ Returning("wifi_scan_all")
  /\ call.get_scan_ret = MNL_CB_ERROR
  /\ dump # <<>>
  /\ call.result = 1

\* the second of two wifi_scan_all calls in immediate succession, the first
\* of which started with no scan running and no notification pending and
\* returned a count, with no other process using the device
SecondScanAll ==
  /\ InCall("wifi_scan_all")
  /\ prev.op = "wifi_scan_all"
  /\ prev.ok
  /\ prev.quiet
  /\ ~kernel.competitor

\* C2 (amended): in the second of two immediately successive wifi_scan_all
\* calls with no other process triggering, the first having started on a
\* quiet device and returned a count, nothing is pending during the
\* drain (the first call consumed its NEW_SCAN_RESULTS notification while
\* waiting), both flags are clear after the drain, and the call that gets
\* past the trigger step has sent TRIGGER_SCAN first.
C2_SecondCallTriggersAgain ==
  SecondScanAll =>
    /\ pc = "drain" => notif_queue = <<>>
    /\ pc = "trigger" => TriggerNecessary(scanning)
    /\ pc \in {"wait", "get_scan", "get_scan_recv"} =>
         (call.sent # <<>> /\ call.sent[1] = NL80211_CMD_TRIGGER_SCAN)

\* C2 as stated: the second call sends no TRIGGER_SCAN
C2_SecondCallSendsNoTrigger ==
  SecondScanAll => TriggersSent = 0

\* C2, its case: the second call is waiting for the scan it triggered
C2_SecondCallWaits ==
  /\ SecondScanAll
  /\ pc = "wait"
  /\ call.sent = <<NL80211_CMD_TRIGGER_SCAN>>

\* a step of the call out of the trigger step while the device is busy and
\* neither flag is set: the request cannot succeed
BusyTriggerStep ==
  (pc = "trigger" /\ pc' # "trigger" /\ kernel.scanning
     /\ TriggerNecessary(scanning))
  => /\ pc' = "return"
     /\ call'.result = -1
     /\ call'.sent = <<NL80211_CMD_TRIGGER_SCAN>>
     /\ UNCHANGED <<scanning, notif_queue, dump>>

\* C3: when the TRIGGER_SCAN exchange fails (the device is busy, for one),
\* wifi_scan_all returns -1 having sent that one TRIGGER_SCAN and nothing
\* else, without waiting and without GET_SCAN; and no call of wifi_scan_all
\* sends more than one TRIGGER_SCAN.
C3_TriggerFailureEndsCall ==
  /\ []((InCall("wifi_scan_all")
          /\ call.failed = "trigger_scan_if_necessary")
        => (/\ pc = "return"
            /\ call.result = -1
            /\ call.sent = <<NL80211_CMD_TRIGGER_SCAN>>))
  /\ [](InCall("wifi_scan_all") => TriggersSent <= 1)
  /\ [][BusyTriggerStep]_vars

\* C3, its case: the exchange failed while a scan was running, and the
\* call returns -1
C3_TriggerFailed ==
  /\ Returning("wifi_scan_all")
  /\ call.failed = "trigger_scan_if_necessary"
  /\ kernel.scanning
  /\ call.sent = <<NL80211_CMD_TRIGGER_SCAN>>
  /\ call.result = -1

\* C4: for every dump order and every capacity >= 1, when the dump holds an
\* entry with status Associated or IbssJoined, slot 0 of the buffer holds
\* the status and attributes of that entry (of the last such entry).
C4_AssociatedInSlotZero ==
  (call.op \in {"wifi_scan_all", "wifi_scan_station"}
     /\ scan_results.bss_infos_length >= 1
     /\ AssociatedInDump # {})
  => HoldsEntry(scan_results.bss_infos[0], dump[LastOf(AssociatedInDump)])

\* C4, its case: the associated entry arrives after as many entries as the
\* buffer has slots
C4_AssociatedArrivesLate ==
  /\ Returning("wifi_scan_all")
  /\ call.capacity = 2
  /\ dump = <<1, 3, 2>>
  /\ HoldsEntry(scan_results.bss_infos[0], 2)

\* C5: the count of a dump equals the number of BSS entries the driver
\* sent, for every capacity, and wifi_scan_all returns that count.
C5_CountIsEntriesSent ==
  /\ call.op \in {"wifi_scan_all", "wifi_scan_station"} =>
       scan_results.scanned = Cardinality(BssEntriesInDump)
  /\ (Returning("wifi_scan_all") /\ call.failed = "none") =>
       call.result = Cardinality(BssEntriesInDump)

\* C5, its case: capacity 0 and more than one entry sent
C5_CountWithoutBuffer ==
  /\ Returning("wifi_scan_all")
  /\ call.capacity = 0
  /\ Cardinality(BssEntriesInDump) >= 2
  /\ call.result = Cardinality(BssEntriesInDump)
  /\ scan_results.written = {}

\* C6: in the slot a dump wrote, and in the station record
\* wifi_scan_station filled, each field whose attribute the entry lacked
\* holds the value the caller stored before the call.
C6_AbsentFieldsKeepCallerValue ==
  /\ (InCall("wifi_scan_all") /\ scan_results.bss_infos_length >= 1
        /\ BssEntriesInDump # {})
     => AbsentFieldsKept(scan_results.bss_infos[0], SlotZeroEntry, CallerBss)
  /\ (Returning("wifi_scan_station") /\ call.result = 1)
     => LET e == BssTable[SlotZeroEntry] IN
        /\ "bssid" \notin e.fields => station.bssid = CallerStation.bssid
        /\ "ssid" \notin e.fields => station.ssid = CallerStation.ssid

\* C6, the run that refutes it: the joined entry, which carries no
\* frequency, overwrote slot 0, and the frequency there is the one of the
\* entry it replaced
C6_StaleFrequency ==
  /\ Returning("wifi_scan_all")
  /\ call.capacity = 1
  /\ dump = <<1, 4>>
  /\ HoldsEntry(scan_results.bss_infos[0], 4)
  /\ scan_results.bss_infos[0].frequency = 2401

\* C7: wifi_scan_station returns 0 whenever no BSS entry of the dump is
\* Associated or IbssJoined, and when one is (and both exchanges succeed)
\* returns 1 with the BSSID, SSID and status of that entry.
C7_StationOnlyWhenAssociated ==
  Returning("wifi_scan_station") =>
    /\ AssociatedInDump = {} => call.result = 0
    /\ (AssociatedInDump # {} /\ call.get_scan_ret # MNL_CB_ERROR
          /\ call.get_station_ret # MNL_CB_ERROR)
       => LET i == dump[LastOf(AssociatedInDump)] IN
          /\ call.result = 1
          /\ station.status = EntryStatus(i)
          /\ "bssid" \in BssTable[i].fields =>
               station.bssid = <<i, i, i, i, i, i>>
          /\ "ssid" \in BssTable[i].fields => station.ssid = <<64 + i, 65>>

\* C7, the run that refutes it: the only BSS of the dump is authenticated,
\* not associated, the kernel answers GET_STATION for it, and
\* wifi_scan_station returns 1 with that BSS as the station
C7_AuthenticatedReturnsOne ==
  /\ Returning("wifi_scan_station")
  /\ dump = <<5>>
  /\ call.result = 1
  /\ station.status = NL80211_BSS_STATUS_AUTHENTICATED
  /\ station.bssid = <<5, 5, 5, 5, 5, 5>>

\* C8: when wifi_scan_init fails it returns NULL and everything it had
\* acquired - sockets, message buffers, the handle - is released.
C8_InitFailsClosed ==
  pc = "init_failed" => (ret = 0 /\ Live(heap) = {})

\* C8, the run that refutes it: the interface lookup failed, the handle
\* and the second buffer stay allocated
C8_HandleAndBufferLeaked ==
  /\ pc = "init_failed"
  /\ call.failed = "if_nametoindex"
  /\ Live(heap) = {"wifi", "buffer2"}

\* C9: for an interface name that resolves to no index wifi_scan_init
\* returns NULL and no netlink socket is open afterwards.
C9_InvalidInterfaceNoSocket ==
  (pc = "init_failed" /\ call.interface = "nosuchif")
  => /\ ret = 0
     /\ Live(heap) \cap Sockets = {}
     /\ \A s \in Sockets : sock[s].groups = {}

\* C9, its case: wifi_scan_init for such a name has returned
C9_InvalidInterfaceRejected ==
  /\ pc = "init_failed"
  /\ call.interface = "nosuchif"
  /\ call.failed = "if_nametoindex"
  /\ ret = 0

ChannelResources == {"buffer1", "buffer2", "sock1", "sock2"}

\* C10 (amended): every wifi_scan_close on a handle releases both buffers
\* and both sockets once more - after n closes each was released n times;
\* a second close frees and closes them a second time, so that close is
\* safe exactly once.
C10_EveryCloseReleasesAgain ==
  pc \in {"closed", "crashed"} =>
    /\ \A r \in ChannelResources : heap[r].released = count.closes
    /\ count.closes >= 2 => DoubleReleased(heap) = ChannelResources

\* C10 as stated: a further close releases nothing again
C10_NothingReleasedTwice ==
  \A r \in Resources : heap[r].released <= 1

\* C10, its case: the handle was closed twice
C10_ClosedTwice ==
  /\ pc = "closed"
  /\ count.closes = 2
  /\ heap["buffer1"].released = 2
  /\ heap["sock1"].released = 2

\* the first message of the reply to CTRL_CMD_GETFAMILY that the call
\* received, the family id it carries, and the ids of the groups it
\* advertises under the name scan - read off the message, not off what the
\* handler stored
FamilyReplyReceived ==
  FamilyReplies(1, mnl_socket_get_portid("sock1"))[call.reply][1]
FamilyIdsIn(msg) ==
  {msg.attrs[j].val : j \in {l \in 1..Len(msg.attrs) :
                               msg.attrs[l].type = CTRL_ATTR_FAMILY_ID}}
GroupsIn(msg) ==
  UNION {{msg.attrs[j].val[l].val : l \in 1..Len(msg.attrs[j].val)} :
           j \in {l \in 1..Len(msg.attrs) :
                    msg.attrs[l].type = CTRL_ATTR_MCAST_GROUPS}}
IsNamedScan(grp) ==
  \E j \in 1..Len(grp) : /\ grp[j].type = CTRL_ATTR_MCAST_GRP_NAME
                           /\ grp[j].val = "scan"
ScanGroupIdsIn(msg) ==
  UNION {{grp[j].val : j \in {l \in 1..Len(grp) :
                                grp[l].type = CTRL_ATTR_MCAST_GRP_ID}} :
           grp \in {g \in GroupsIn(msg) : IsNamedScan(g)}}
InitReturned ==
  pc \in {"init_failed", "ready"} /\ call.op = "wifi_scan_init"

\* C11: wifi_scan_init returns NULL whenever the get-family reply carries
\* no family id or advertises no group named exactly scan; when it
\* succeeds the notification socket is a member of the scan group the reply
\* named and of nothing else, the command socket is a member of no group,
\* and both channels hold the family id of the reply.
C11_FamilyAndScanGroupResolved ==
  /\ (InitReturned /\ call.reply # 0
        /\ FamilyReplyReceived.kind = "data"
        /\ \/ FamilyIdsIn(FamilyReplyReceived) = {}
           \/ \A g \in GroupsIn(FamilyReplyReceived) : ~IsNamedScan(g))
     => (pc = "init_failed" /\ ret = 0)
  /\ (InitReturned /\ pc = "ready")
     => /\ call.reply # 0
        /\ sock[wifi.notification_channel.nl].groups
             = ScanGroupIdsIn(FamilyReplyReceived)
        /\ Cardinality(ScanGroupIdsIn(FamilyReplyReceived)) = 1
        /\ sock[wifi.command_channel.nl].groups = {}
        /\ {wifi.notification_channel.nl80211_id,
            wifi.command_channel.nl80211_id}
             = FamilyIdsIn(FamilyReplyReceived)

\* C11, its case: the reply advertised groups named scanning and noscan
\* but none named scan, and wifi_scan_init returned NULL
C11_NoGroupNamedScan ==
  /\ InitReturned
  /\ call.reply = 8
  /\ GroupsIn(FamilyReplyReceived) # {}
  /\ call.failed = "no scan group"
  /\ ret = 0

\* the flags of the call as the drain left them
BothFlagsClear ==
  scanning.scan_triggered = 0 /\ scanning.new_scan_results = 0

\* a step that begins a wifi_scan_all call: both flags are clear and nothing
\* is sent yet
ScanAllBeginsClear ==
  (pc = "ready" /\ call'.op = "wifi_scan_all")
  => /\ scanning'.scan_triggered = 0
     /\ scanning'.new_scan_results = 0
     /\ call'.sent = <<>>

\* the step of the call out of the trigger step: TRIGGER_SCAN was sent if
\* and only if the drain left both flags clear
TriggerStepSendsIffClear ==
  (pc = "trigger" /\ pc' # "trigger")
  => /\ BothFlagsClear => call'.sent = <<NL80211_CMD_TRIGGER_SCAN>>
     /\ ~BothFlagsClear => call'.sent = <<>>

\* every other step of the call leaves the number of TRIGGER_SCAN requests
\* as it is
OnlyTriggerStepSendsTrigger ==
  (InCall("wifi_scan_all") /\ pc # "trigger" /\ call'.op = "wifi_scan_all")
  => TriggersSent' = TriggersSent

\* C12: in every wifi_scan_all call both flags start false, and a
\* TRIGGER_SCAN request is sent if and only if the drain completed and left
\* both the scan-triggered and the fresh-results flag false: none is sent
\* during the drain or after a failed drain, the trigger step sends one
\* exactly when both flags are false, and no later step sends one.
C12_TriggerIffBothFlagsClear ==
  /\ []((InCall("wifi_scan_all")
          /\ (pc = "drain" \/ call.failed = "read_past_notifications"))
        => call.sent = <<>>)
  /\ [][ScanAllBeginsClear]_vars
  /\ [][TriggerStepSendsIffClear]_vars
  /\ [][OnlyTriggerStepSendsTrigger]_vars

\* C12, its case: the drain found a TRIGGER_SCAN notification of a scan
\* already running, and the call waits without having sent a request
C12_WaitsWithoutTrigger ==
  /\ InCall("wifi_scan_all")
  /\ pc = "wait"
  /\ scanning.scan_triggered = 1
  /\ scanning.new_scan_results = 0
  /\ call.sent = <<>>

\* the phases of wifi_scan_all and the order they may follow each other in:
\* drain, trigger (which sends nothing when it is not needed), wait, dump,
\* each of which may instead end the call (get_scan is the dump's request,
\* get_scan_recv the reading of its replies)
PhaseOrder ==
  { <<"ready", "drain">>, <<"ready", "return">>,
    <<"drain", "trigger">>, <<"drain", "return">>,
    <<"trigger", "wait">>, <<"trigger", "return">>,
    <<"wait", "get_scan">>, <<"wait", "return">>,
    <<"get_scan", "get_scan_recv">>, <<"get_scan", "return">>,
    <<"get_scan_recv", "return">> }
PhasesInOrder ==
  call'.op = "wifi_scan_all" => (pc' = pc \/ <<pc, pc'>> \in PhaseOrder)

\* C13: within one wifi_scan_all call GET_SCAN is sent, and the dump phase
\* entered, only with the fresh-results flag of that call true; the phases
\* follow each other only in the order drain, trigger, wait, dump; and once
\* a phase failed the call is at its return, with no later phase entered.
C13_DumpOnlyAfterFreshResults ==
  /\ []((InCall("wifi_scan_all")
          /\ (\/ pc \in {"get_scan", "get_scan_recv"}
              \/ \E i \in DOMAIN call.sent :
                    call.sent[i] = NL80211_CMD_GET_SCAN))
        => scanning.new_scan_results = 1)
  /\ []((InCall("wifi_scan_all") /\ call.failed # "none")
        => pc = "return")
  /\ [](InCall("wifi_scan_all")
        => call.sent \in { <<>>, <<NL80211_CMD_TRIGGER_SCAN>>,
                           <<NL80211_CMD_GET_SCAN>>,
                           <<NL80211_CMD_TRIGGER_SCAN,
                             NL80211_CMD_GET_SCAN>> })
  /\ [][PhasesInOrder]_vars

\* C13, its case: the call triggered a scan, saw its results announced
\* while waiting, and is reading the dump it then asked for
C13_DumpAfterWait ==
  /\ InCall("wifi_scan_all")
  /\ pc = "get_scan_recv"
  /\ call.sent = <<NL80211_CMD_TRIGGER_SCAN, NL80211_CMD_GET_SCAN>>
  /\ scanning.scan_triggered = 1
  /\ scanning.new_scan_results = 1

\* a step in which the call takes the first pending datagram off the
\* notification socket and hands its message to the notification handler
Dispatches ==
  /\ pc \in {"drain", "wait"}
  /\ notif_queue # <<>>
  /\ notif_queue' = Tail(notif_queue)
  /\ Head(notif_queue).kind = "data"
IsBroadcastResults(msg) ==
  msg.cmd = NL80211_CMD_NEW_SCAN_RESULTS /\ msg.pid = 0 /\ msg.seq = 0
HandlerStep ==
  Dispatches =>
    LET msg == Head(notif_queue) IN
    /\ scanning'.new_scan_results =
         (IF IsBroadcastResults(msg) THEN 1 ELSE scanning.new_scan_results)
    /\ scanning'.scan_triggered =
         (IF msg.cmd = NL80211_CMD_TRIGGER_SCAN
          THEN 1 ELSE scanning.scan_triggered)
    /\ pc' = pc
    /\ call' = call

\* C14: the notification handler sets the fresh-results flag only for a
\* NEW_SCAN_RESULTS message whose port id and sequence number are both
\* zero, a TRIGGER_SCAN notification sets only the scan-triggered flag,
\* every other message (NEW_SCAN_RESULTS addressed to a request among them)
\* changes neither flag, no flag is ever cleared, and the handler reports
\* OK, so that the dispatch does not end the phase.
C14_HandlerSetsFlags == [][HandlerStep]_vars

\* C14, its case: the drain has dispatched a TRIGGER_SCAN notification and
\* the NEW_SCAN_RESULTS broadcast, each of which set its flag, and goes on
C14_BothFlagsSetInDrain ==
  /\ InCall("wifi_scan_all")
  /\ pc = "drain"
  /\ scanning.scan_triggered = 1
  /\ scanning.new_scan_results = 1
  /\ call.failed = "none"

\* the broadcast that announces new results is pending on the
\* notification socket
BroadcastPending ==
  \E i \in 1..Len(notif_queue) : IsBroadcastResults(notif_queue[i])
WaitFailed == call.failed = "wait_for_new_scan_results"
DumpIssued ==
  /\ InCall("wifi_scan_all")
  /\ \E i \in DOMAIN call.sent : call.sent[i] = NL80211_CMD_GET_SCAN

\* a step that ends the wait: the flag is true and the dump comes next, or
\* the receive or the dispatch failed and the call returns -1
WaitEnds ==
  (pc = "wait" /\ pc' # "wait")
  => \/ (scanning.new_scan_results = 1 /\ pc' = "get_scan")
     \/ (pc' = "return" /\ call'.failed = "wait_for_new_scan_results"
           /\ call'.result = -1)

\* the call waits with the flag false, nothing pending, no scan running
\* and no other process to start one: no broadcast will come
WaitsInVain ==
  /\ InCall("wifi_scan_all")
  /\ pc = "wait"
  /\ scanning.new_scan_results = 0
  /\ notif_queue = <<>>
  /\ ~kernel.scanning
  /\ ~kernel.competitor
StaysWaiting ==
  WaitsInVain => (WaitsInVain' \/ call'.failed = "wait_for_new_scan_results")

\* C15: the wait of wifi_scan_all ends only with the fresh-results flag true
\* or with a receive or dispatch error; when the NEW_SCAN_RESULTS broadcast
\* is pending on the notification socket the wait ends and, unless an error
\* ended it, the dump is requested; and a call that waits while no
\* broadcast can come stays in the wait for ever, unless an error ends it.
C15_WaitEndsOnResultsOrError ==
  /\ [][WaitEnds]_vars
  /\ [][StaysWaiting]_vars
  /\ ((InCall("wifi_scan_all") /\ pc = "wait" /\ BroadcastPending)
        ~> (DumpIssued \/ WaitFailed))

\* C15, its case: the call saw the TRIGGER_SCAN of a running scan and sent
\* none itself, the scan was aborted, and the call waits for a broadcast
\* that will not come
C15_WaitsForEver ==
  /\ WaitsInVain
  /\ scanning.scan_triggered = 1
  /\ call.sent = <<>>

NotificationSocketBlocking == ~sock[wifi.notification_channel.nl].nonblock

\* C16: once read_past_notifications has returned, with success or with
\* failure, the notification socket is in blocking mode again: in every
\* state of wifi_scan_all after the drain, the return of the call included,
\* the socket is blocking.
C16_BlockingAfterDrain ==
  (InCall("wifi_scan_all") /\ pc # "drain") => NotificationSocketBlocking

\* C16, its case: the receive of the drain failed with an errno other than
\* would-block while datagrams were pending, wifi_scan_all returns -1, and
\* the notification socket is still non-blocking
C16_ReturnsNonBlocking ==
  /\ Returning("wifi_scan_all")
  /\ call.failed = "read_past_notifications"
  /\ call.result = -1
  /\ notif_queue # <<>>
  /\ ~NotificationSocketBlocking

\* a datagram arrives on the notification socket
Arrives ==
  \E m \in {TriggerNotification, ResultsNotification, AbortedNotification,
             StrayResults} : notif_queue' = Append(notif_queue, m)

\* a step taken while the drain runs: the queue changes only by an arrival
\* at its end or by the drain taking its oldest datagram, which is run
\* through the handler in that step; the drain goes on to the trigger only
\* when nothing is pending; and any other end is the return of -1
DrainStep ==
  pc = "drain" =>
    /\ notif_queue' # notif_queue =>
          \/ Arrives /\ scanning' = scanning /\ pc' = "drain"
          \/ /\ notif_queue # <<>>
             /\ notif_queue' = Tail(notif_queue)
             /\ scanning' =
                  notification_cb_run(Head(notif_queue), scanning).context
    /\ notif_queue' = notif_queue => scanning' = scanning
    /\ pc' = "trigger" => notif_queue = <<>> /\ notif_queue' = <<>>
    /\ pc' \notin {"drain", "trigger"} =>
          /\ pc' = "return"
          /\ call'.result = -1
          /\ call'.failed = "read_past_notifications"

\* with nothing pending the drain can end at once
DrainEndsWhenEmpty ==
  (pc = "drain" /\ notif_queue = <<>>) => ENABLED read_past_notifications_done

\* C17: the drain takes the pending datagrams one at a time, oldest first,
\* each run through the handler once; it ends at the first would-block
\* report without waiting for more; a receive failure other than would-block
\* ends it, and wifi_scan_all, with -1; and unless datagrams keep arriving
\* for ever the drain does not go on for ever.
C17_DrainTerminates ==
  /\ [][DrainStep]_vars
  /\ []DrainEndsWhenEmpty
  /\ ([]<>(pc # "drain") \/ []<><<pc = "drain" /\ Arrives>>_vars)

\* C17, its case: the drain has run a TRIGGER_SCAN and a NEW_SCAN_RESULTS
\* broadcast through the handler, found nothing more pending and ended
C17_DrainedTwoAndEnded ==
  /\ InCall("wifi_scan_all")
  /\ pc = "trigger"
  /\ scanning.scan_triggered = 1
  /\ scanning.new_scan_results = 1
  /\ notif_queue = <<>>

\* the step that parses the next message of the dump, when that message is
\* an associated or joined entry that comes after k entries, 0 < k < capacity
AssociatedArrives(i) ==
  /\ pc = "get_scan_recv"
  /\ dump' = Append(dump, i)
  /\ i \in 1..NBss
  /\ IsAssociated(EntryStatus(i))
  /\ scan_results.scanned > 0
  /\ scan_results.scanned < scan_results.bss_infos_length

\* ... moves the record of slot 0 to slot k, writes the entry to slot 0 and
\* leaves the other slots alone
FirstStoredAsLast ==
  \A i \in 1..NBss :
    AssociatedArrives(i) =>
      /\ scan_results'.bss_infos[scan_results.scanned] =
           scan_results.bss_infos[0]
      /\ HoldsEntry(scan_results'.bss_infos[0], i)
      /\ \A j \in DOMAIN scan_results.bss_infos \ {0, scan_results.scanned} :
           scan_results'.bss_infos[j] = scan_results.bss_infos[j]
      /\ scan_results'.scanned = scan_results.scanned + 1

\* the dump [not associated #1, associated #2, not associated #3] into a
\* buffer of capacity 2
ExampleDump ==
  /\ InCall("wifi_scan_all")
  /\ pc = "get_scan_recv"
  /\ scan_results.bss_infos_length = 2
  /\ dump = <<1, 2, 3>>
ExampleBuffer ==
  /\ HoldsEntry(scan_results.bss_infos[0], 2)
  /\ HoldsEntry(scan_results.bss_infos[1], 1)
  /\ scan_results.scanned = 3

\* C18: an associated or joined entry that arrives after k entries of the
\* dump, 0 < k < capacity, moves the record of slot 0 to slot k and is
\* written to slot 0; with capacity 2 the dump [not associated #1,
\* associated #2, not associated #3] leaves the buffer [#2, #1] and the
\* count 3.
C18_AssociatedFirstStoredAsLast ==
  /\ [][FirstStoredAsLast]_vars
  /\ [](ExampleDump => ExampleBuffer)

\* C18, its case: the example dump has been parsed into the buffer of
\* capacity 2, which holds [#2, #1] with slot 1 written by the move
C18_ExampleParsed ==
  /\ ExampleDump
  /\ ExampleBuffer
  /\ scan_results.written = {0, 1}

\* the slots of the caller's array
Slots == 0..(scan_results.bss_infos_length - 1)

\* nothing was written outside the caller's array
WritesInBounds ==
  /\ ~scan_results.memory_error
  /\ scan_results.written \subseteq Slots
  /\ DOMAIN scan_results.bss_infos = Slots
  /\ scan_results.bss_infos_length = 0 => scan_results.written = {}

\* the step that parses message i of the driver's table as the next
\* message of the dump
EntryArrives(i) ==
  /\ pc = "get_scan_recv"
  /\ dump' = Append(dump, i)
  /\ i \in 1..NBss

\* the slots whose record the step changed
SlotsChanged ==
  {j \in Slots : scan_results'.bss_infos[j] # scan_results.bss_infos[j]}

\* an entry whose slot is outside the array and is not slot 0 is counted
\* and not written; otherwise the step writes to the entry's slot and, for
\* the move of slot 0, to slot `scanned` only when that is inside the array
BoundedPlacement ==
  \A i \in 1..NBss :
    EntryArrives(i) =>
      /\ scan_results'.scanned = scan_results.scanned + 1
      /\ DOMAIN scan_results'.bss_infos = Slots
      /\ IF \/ scan_results.bss_infos_length = 0
            \/ /\ scan_results.scanned >= scan_results.bss_infos_length
               /\ ~IsAssociated(EntryStatus(i))
         THEN /\ scan_results'.bss_infos = scan_results.bss_infos
              /\ scan_results'.written = scan_results.written
         ELSE /\ scan_results'.written \ scan_results.written \subseteq
                   ({TargetSlot(scan_results, EntryStatus(i)),
                     scan_results.scanned} \cap Slots)
              /\ SlotsChanged \subseteq
                   ({TargetSlot(scan_results, EntryStatus(i)),
                     scan_results.scanned} \cap Slots)

\* C19: for every capacity and every dump no record is written or copied to
\* a slot outside 0..capacity-1: an entry whose slot is at or past the
\* capacity and is not slot 0 is counted and not written, the record of
\* slot 0 is copied only to a slot below the capacity, and with capacity 0
\* nothing is written.
C19_NoWriteOutsideCapacity ==
  /\ []WritesInBounds
  /\ [][BoundedPlacement]_vars

\* C19, its case: three entries went into a buffer of capacity 1, the last
\* one associated: it replaced slot 0, the record it replaced was not copied
\* anywhere, and the entry between was counted only
C19_CountedNotWritten ==
  /\ pc = "get_scan_recv"
  /\ scan_results.bss_infos_length = 1
  /\ dump = <<1, 3, 2>>
  /\ scan_results.scanned = 3
  /\ scan_results.written = {0}
  /\ HoldsEntry(scan_results.bss_infos[0], 2)
  /\ ~scan_results.memory_error

\* C19, capacity 0: three entries are counted and nothing is written
C19_NothingWrittenAtCapacityZero ==
  /\ pc = "get_scan_recv"
  /\ scan_results.bss_infos_length = 0
  /\ scan_results.scanned = 3
  /\ scan_results.written = {}

\* the entries of the driver's table that carry every attribute
FullEntries == {i \in 1..NBss : BssTable[i].fields = AllFields}

\* the dump so far consists of entries that carry every attribute, no entry
\* twice
FullDump ==
  /\ pc = "get_scan_recv"
  /\ dump # <<>>
  /\ \A j \in 1..Len(dump) : dump[j] \in FullEntries
  /\ \A j, l \in 1..Len(dump) : dump[j] = dump[l] => j = l

\* the slots a dump of n entries fills: 0..min(n, capacity)-1
FilledSlots ==
  0..((IF Len(dump) < scan_results.bss_infos_length
       THEN Len(dump) ELSE scan_results.bss_infos_length) - 1)

\* each filled slot holds one entry of the dump, no entry is in two slots,
\* and the slots after them are as the caller left them
FilledOnceRestUntouched ==
  /\ \A a \in FilledSlots :
       /\ a \in scan_results.written
       /\ \E j \in 1..Len(dump) :
            HoldsEntry(scan_results.bss_infos[a], dump[j])
  /\ \A a, b \in FilledSlots :
       \A j \in 1..Len(dump) :
         (/\ HoldsEntry(scan_results.bss_infos[a], dump[j])
          /\ HoldsEntry(scan_results.bss_infos[b], dump[j])) => a = b
  /\ \A a \in Slots \ FilledSlots :
       /\ a \notin scan_results.written
       /\ InCall("wifi_scan_all") => scan_results.bss_infos[a] = CallerBss

\* C20: after a dump of n entries that all carry every attribute into a
\* buffer of capacity c >= 1, the slots 0..min(n,c)-1 each hold one entry of
\* the dump, no entry is in two slots, and the slots from min(n,c) on are
\* untouched.
C20_FilledSlotsHoldDistinctEntries ==
  (FullDump /\ scan_results.bss_infos_length >= 1) => FilledOnceRestUntouched

\* C20, its case: entry #1, the associated #2 and the joined #6 went into a
\* buffer of capacity 2: #2 moved #1 to slot 1, #6 replaced #2 in slot 0
C20_ThreeEntriesIntoTwoSlots ==
  /\ FullDump
  /\ dump = <<1, 2, 6>>
  /\ scan_results.bss_infos_length = 2
  /\ HoldsEntry(scan_results.bss_infos[0], 6)
  /\ HoldsEntry(scan_results.bss_infos[1], 1)

(***************************************************************************)
(* The attribute parsers.  kernel.entry holds the attributes of the BSS    *)
(* entry the driver sends as message WireMsg.                              *)
(***************************************************************************)
\* the payload length a wire type stands for, 0 when it fixes none
WireLength(type) ==
  CASE type = MNL_TYPE_U8 -> 1
    [] type = MNL_TYPE_U16 -> 2
    [] type = MNL_TYPE_U32 -> 4
    [] OTHER -> 0

\* attribute a is listed in the table with a wire type or a fixed length
\* its payload does not have
Mismatches(a, table) ==
  \E k \in 1..Len(table) :
    /\ table[k].attr = a.type
    /\ \/ table[k].len # 0 /\ a.len # table[k].len
       \/ /\ table[k].len = 0
          /\ WireLength(table[k].type) # 0
          /\ a.len # WireLength(table[k].type)

\* where the pass over attrs stops: at the first attribute in range that
\* mismatches, or behind the last attribute
StopsAt(attrs, max, table) ==
  IF \E i \in 1..Len(attrs) :
       attrs[i].type <= max /\ Mismatches(attrs[i], table)
  THEN CHOOSE i \in 1..Len(attrs) :
         /\ attrs[i].type <= max /\ Mismatches(attrs[i], table)
         /\ \A j \in 1..(i - 1) :
              ~(attrs[j].type <= max /\ Mismatches(attrs[j], table))
  ELSE Len(attrs) + 1

\* the attribute recorded for identifier t: the last one with that
\* identifier before the stop, 0 when there is none
RecordedFor(attrs, max, table, t) ==
  IF \E i \in 1..(StopsAt(attrs, max, table) - 1) : attrs[i].type = t
  THEN CHOOSE i \in 1..(StopsAt(attrs, max, table) - 1) :
         /\ attrs[i].type = t
         /\ \A j \in (i + 1)..(StopsAt(attrs, max, table) - 1) :
              attrs[j].type # t
  ELSE 0

\* when the dump is about to begin: the validation pass over the driver's
\* entry records exactly that, and reports an error exactly when it
\* stopped early
ValidationPass ==
  (pc = "get_scan_recv" /\ dump = <<>>) =>
    \E r \in {mnl_attr_parse(kernel.entry, 1, EmptyTb(NL80211_BSS_MAX),
                              NL80211_BSS_MAX, NL80211_BSS_VALIDATION)} :
      /\ \A t \in 0..NL80211_BSS_MAX :
           r.tb[t] = RecordedFor(kernel.entry, NL80211_BSS_MAX,
                                 NL80211_BSS_VALIDATION, t)
      /\ r.ret = MNL_CB_ERROR <=>
           StopsAt(kernel.entry, NL80211_BSS_MAX, NL80211_BSS_VALIDATION)
             <= Len(kernel.entry)

\* the driver's entry is the first message of the dump of wifi_scan_all
\* and the caller's array has room for it
WireEntryFirst ==
  /\ InCall("wifi_scan_all")
  /\ dump # <<>>
  /\ dump[1] = WireMsg
  /\ scan_results.bss_infos_length >= 1

\* the value stored for a field: the payload of the attribute recorded for
\* it, or the caller's value when none is recorded
StoredFor(t, callers) ==
  IF RecordedFor(kernel.entry, NL80211_BSS_MAX, NL80211_BSS_VALIDATION,
                 t) = 0
  THEN callers
  ELSE kernel.entry[RecordedFor(kernel.entry, NL80211_BSS_MAX,
                                NL80211_BSS_VALIDATION, t)].val

\* the record in slot 0 shows the pass: frequency and BSSID are those of
\* the recorded attributes
RecordedAttributesStored ==
  (WireEntryFirst /\ Len(dump) = 1
   /\ \A i \in 1..Len(kernel.entry) :
        kernel.entry[i].type # NL80211_BSS_INFORMATION_ELEMENTS)
  => /\ scan_results.bss_infos[0].frequency =
          StoredFor(NL80211_BSS_FREQUENCY, CallerBss.frequency)
     /\ scan_results.bss_infos[0].bssid =
          StoredFor(NL80211_BSS_BSSID, CallerBss.bssid)

\* C21: one validation pass stops at the first attribute in range whose
\* wire type or fixed length mismatches its table entry; the attributes in
\* range before it stay recorded and none after it is recorded; an
\* attribute in range that the table does not list is recorded unchecked;
\* and of two attributes with one identifier the later is recorded.
C21_ValidationStopsAtMismatch ==
  ValidationPass /\ RecordedAttributesStored

\* C21, its case: the entry holds a frequency and then a BSSID of 5 bytes;
\* the pass stopped at the BSSID, the frequency was stored and the BSSID
\* field keeps the caller's value
C21_FrequencyBeforeShortBssid ==
  /\ WireEntryFirst
  /\ kernel.entry = <<FreqOk, BssidShort>>
  /\ scan_results.bss_infos[0].frequency = 2409
  /\ scan_results.bss_infos[0].bssid = CallerBss.bssid

\* message j of the dump has an attribute that mismatches its table entry:
\* the driver's entry when its pass stops early, or the message with the
\* interface index of two bytes
MismatchAt(j) ==
  \/ dump[j] = ShortIfindexMsg
  \/ /\ dump[j] = WireMsg
     /\ StopsAt(kernel.entry, NL80211_BSS_MAX, NL80211_BSS_VALIDATION)
          <= Len(kernel.entry)

\* C22: a wire-type or fixed-length mismatch on a listed attribute makes
\* the handler of that message return an error status: the dump ends at
\* that message and get_scan reports an error.
C22_MismatchEndsExchange ==
  \A j \in 1..Len(dump) :
    MismatchAt(j) =>
      /\ j = Len(dump)
      /\ pc # "get_scan_recv"
      /\ call.get_scan_ret = MNL_CB_ERROR

\* C22, its case: the entry holds a BSSID of 5 bytes and then a frequency;
\* the dump went on to NLMSG_DONE, get_scan reported no error and
\* wifi_scan_all returns the entry as one BSS, its BSSID and frequency
\* still the caller's
C22_MismatchReturnedAsBss ==
  /\ Returning("wifi_scan_all")
  /\ dump = <<WireMsg>>
  /\ kernel.entry = <<BssidShort, FreqOk>>
  /\ scan_results.bss_infos_length >= 1
  /\ call.get_scan_ret = MNL_CB_STOP
  /\ call.failed = "none"
  /\ call.result = 1
  /\ scan_results.bss_infos[0].bssid = CallerBss.bssid
  /\ scan_results.bss_infos[0].frequency = CallerBss.frequency

\* the driver's entry holds one BSSID attribute, at position i, and apart
\* from it only attributes that pass validation
OneBssidAt(i) ==
  /\ i \in 1..Len(kernel.entry)
  /\ kernel.entry[i].type = NL80211_BSS_BSSID
  /\ \A j \in 1..Len(kernel.entry) \ {i} :
       /\ kernel.entry[j].type # NL80211_BSS_BSSID
       /\ kernel.entry[j].type # NL80211_BSS_INFORMATION_ELEMENTS
       /\ ~Mismatches(kernel.entry[j], NL80211_BSS_VALIDATION)

\* the frequency the entry carries: that of its last frequency attribute
CarriedFrequency(callers) ==
  IF \E j \in 1..Len(kernel.entry) :
       kernel.entry[j].type = NL80211_BSS_FREQUENCY
  THEN kernel.entry[CHOOSE j \in 1..Len(kernel.entry) :
         /\ kernel.entry[j].type = NL80211_BSS_FREQUENCY
         /\ \A l \in (j + 1)..Len(kernel.entry) :
              kernel.entry[l].type # NL80211_BSS_FREQUENCY].val
  ELSE callers

\* C23: for a BSS entry written to the buffer, a BSSID payload of exactly 6
\* bytes is stored as it is, a payload of any other length leaves an
\* all-zero BSSID, and in both cases the other attributes of the entry are
\* stored.
C23_BssidStoredOrZeroed ==
  \A i \in 1..Len(kernel.entry) :
    (WireEntryFirst /\ Len(dump) = 1 /\ OneBssidAt(i)) =>
      /\ scan_results.bss_infos[0].bssid =
           (IF kernel.entry[i].len = BSSID_LENGTH
            THEN kernel.entry[i].val ELSE <<0, 0, 0, 0, 0, 0>>)
      /\ scan_results.bss_infos[0].frequency =
           CarriedFrequency(CallerBss.frequency)
      /\ scan_results.bss_infos[0].status = BSS_NONE

\* C23, its case: the entry holds a BSSID of 5 bytes and then a frequency;
\* it was written to slot 0 and counted, and both fields still hold the
\* caller's values, not zeros and not the frequency sent
C23_ShortBssidNotZeroed ==
  /\ WireEntryFirst
  /\ pc = "get_scan_recv"
  /\ dump = <<WireMsg>>
  /\ kernel.entry = <<BssidShort, FreqOther>>
  /\ scan_results.written = {0}
  /\ scan_results.scanned = 1
  /\ scan_results.bss_infos[0].bssid = CallerBss.bssid
  /\ scan_results.bss_infos[0].bssid # <<0, 0, 0, 0, 0, 0>>
  /\ scan_results.bss_infos[0].frequency = CallerBss.frequency
  /\ scan_results.bss_infos[0].status = BSS_NONE

\* the half of C23 that holds: a BSSID payload of 6 bytes is stored as it
\* is, together with the frequency the entry carries
SixByteBssidStored ==
  \A i \in 1..Len(kernel.entry) :
    (WireEntryFirst /\ Len(dump) = 1 /\ OneBssidAt(i)
     /\ kernel.entry[i].len = BSSID_LENGTH) =>
      /\ scan_results.bss_infos[0].bssid = kernel.entry[i].val
      /\ scan_results.bss_infos[0].frequency =
           CarriedFrequency(CallerBss.frequency)

\* the driver's entry is one information-elements attribute, and it has
\* been parsed into slot 0
IeEntryParsed ==
  /\ WireEntryFirst
  /\ Len(dump) = 1
  /\ Len(kernel.entry) = 1
  /\ kernel.entry[1].type = NL80211_BSS_INFORMATION_ELEMENTS
IePayload == kernel.entry[1].val.bytes

\* the payload is [0x00, len, bytes[len]] with len in 0..32, possibly with
\* more bytes behind it
WellFormedIe(p) ==
  /\ Len(p) >= 2
  /\ p[1] = 0
  /\ p[2] <= SSID_MAX_LENGTH_WITH_NULL - 1
  /\ p[2] <= Len(p) - 2

\* string s is what bytes 3..2+len of p read as a zero-terminated string:
\* those bytes up to the first zero among them, or all of them
ReadsAsSsid(s, p) ==
  /\ Len(s) <= p[2]
  /\ \A i \in 1..Len(s) : s[i] = p[2 + i] /\ s[i] # 0
  /\ Len(s) < p[2] => p[2 + Len(s) + 1] = 0

\* C24: for every information-element payload [0x00, len, bytes[len]] with
\* len in 0..32, with or without further bytes behind it, the decoded SSID
\* is bytes[0..len] read as a zero-terminated string.
C24_SsidRoundTrip ==
  (IeEntryParsed /\ WellFormedIe(IePayload)) =>
    /\ ReadsAsSsid(scan_results.bss_infos[0].ssid, IePayload)
    /\ ~scan_results.memory_error

\* C24, its case: an SSID of 32 letters was decoded in full
C24_FullLengthSsid ==
  /\ IeEntryParsed
  /\ IePayload = <<0, 32>> \o Letters(32)
  /\ scan_results.bss_infos[0].ssid = Letters(32)

\* C25: for every information-element payload, of any length and any
\* bytes, that does not start with 0, or declares a length above 32 or
\* above the bytes that follow the two-byte header, the decoded SSID is
\* empty; and for no payload is a byte read outside the payload or written
\* outside the SSID field.
C25_MalformedIeGivesEmptySsid ==
  IeEntryParsed =>
    /\ ~WellFormedIe(IePayload) => scan_results.bss_infos[0].ssid = <<>>
    /\ ~scan_results.memory_error

\* C25, its case: the payload declares a length of 255 and one byte
\* follows; the parser took the length for -1 and copied outside the SSID
\* field
C25_LengthByteAbove127 ==
  /\ IeEntryParsed
  /\ IePayload = <<0, 255, 65>>
  /\ scan_results.memory_error

\* C25, the payload of one byte: the parser read the byte behind it
C25_OneBytePayload ==
  /\ IeEntryParsed
  /\ IePayload = <<0>>
  /\ kernel.entry[1].val.next = 0
  /\ scan_results.bss_infos[0].ssid = <<>>
  /\ scan_results.memory_error

\* the half of C25 that holds: a malformed payload whose length byte is
\* below 128, and that is not the single byte 0, leaves an empty SSID and
\* touches nothing outside
MalformedIeBelow128 ==
  (/\ IeEntryParsed
   /\ ~WellFormedIe(IePayload)
   /\ IePayload # <<0>>
   /\ Len(IePayload) >= 2 => IePayload[2] < 128)
  => /\ scan_results.bss_infos[0].ssid = <<>>
     /\ ~scan_results.memory_error

(***************************************************************************)
(* Sequence numbers of the two channels.                                   *)
(***************************************************************************)
NotificationSequence == wifi.notification_channel.sequence
CommandSequence == wifi.command_channel.sequence

\* how far the step advanced the two sequence numbers
NotificationAdvance ==
  wifi'.notification_channel.sequence - wifi.notification_channel.sequence
CommandAdvance ==
  wifi'.command_channel.sequence - wifi.command_channel.sequence

\* wifi_scan_init: a channel it set up starts at 1, and the get-family
\* exchange, when its receive was reached, made the notification
\* channel's number 2 whether the family was resolved or not
InitSequences ==
  pc = "start" =>
    /\ wifi'.command_channel.sequence \in {0, 1}
    /\ wifi'.notification_channel.sequence \in {0, 1, 2}
    /\ wifi'.notification_channel.sequence = 2 <=> call'.reply # 0

\* every other step: the numbers never go down and change by 1 at most;
\* the step that ends the receive loop of get_scan advances the command
\* channel by 1 whatever ended it; the trigger step advances it by 1 when
\* the exchange succeeded and not at all when no request was needed; the
\* get-station step advances it by 1 when the exchange succeeded; and no
\* other step changes a number
SequenceStep ==
  pc # "start" =>
    /\ NotificationAdvance = 0
    /\ CommandAdvance \in {0, 1}
    /\ pc \notin {"trigger", "get_scan_recv", "get_station"} =>
         CommandAdvance = 0
    /\ pc = "get_scan_recv" =>
         CommandAdvance = (IF pc' = "get_scan_recv" THEN 0 ELSE 1)
    /\ (pc = "trigger" /\ call'.sent = call.sent) => CommandAdvance = 0
    /\ (pc = "trigger" /\ pc' = "wait" /\ call'.sent # call.sent) =>
         CommandAdvance = 1
    /\ (pc = "get_station" /\ call'.failed = "none") => CommandAdvance = 1

\* receive_nl_message on the command channel as it is, for any end of the
\* exchange: the number goes up by exactly 1
ReceiveAdvancesByOne ==
  pc \in {"trigger", "get_scan_recv", "get_station"} =>
    \A t \in {"done", "ack", "nack", "EIO"} :
      receive_nl_message(wifi.command_channel,
        mnl_socket_get_portid(wifi.command_channel.nl),
        << Terminal(t, CommandSequence,
                    mnl_socket_get_portid(wifi.command_channel.nl)) >>,
        "handle_NL80211_CMD_NEW_SCAN_RESULTS",
        scan_results).channel.sequence = CommandSequence + 1

\* C26: a channel's sequence number starts at 1, goes up by exactly 1 with
\* every receive_nl_message whether the exchange succeeded or failed, is
\* changed by nothing else and never reset: it never goes down, and no two
\* requests whose receive was reached carry the same number.
C26_SequenceAdvancesByOne ==
  /\ [][InitSequences]_vars
  /\ [][SequenceStep]_vars
  /\ []ReceiveAdvancesByOne

\* C26, its case: the trigger exchange of the first wifi_scan_all failed
\* in its receive, the number went from 1 to 2 all the same
C26_FailedExchangeAdvanced ==
  /\ Returning("wifi_scan_all")
  /\ call.failed = "trigger_scan_if_necessary"
  /\ prev = NoPrev
  /\ CommandSequence = 2
  /\ NotificationSequence = 2

\* the step in which the driver sends BSS entry #1 with sequence number 1
\* as the next message of the dump
DuplicateArrives ==
  /\ pc = "get_scan_recv"
  /\ dump' = Append(dump, DuplicateMsg)

\* when the request just sent carries another number the message is
\* rejected: the handler does not run, the receive loop ends and get_scan
\* reports an error; when the request carries number 1 the message is its
\* answer and the entry is counted
DuplicateRejected ==
  DuplicateArrives =>
    IF CommandSequence # 1
    THEN /\ scan_results' = scan_results
         /\ pc' # "get_scan_recv"
         /\ call'.get_scan_ret = MNL_CB_ERROR
         /\ CommandAdvance = 1
    ELSE /\ scan_results'.scanned = scan_results.scanned + 1
         /\ pc' = "get_scan_recv"
         /\ CommandAdvance = 0

\* mnl_cb_run as receive_nl_message calls it on the command channel as it
\* is: a message that carries the number of an earlier exchange, or the
\* port id of another socket, is not handed to the handler
EarlierNumbersRejected ==
  pc = "get_scan_recv" =>
    \A i \in 1..NBss :
      /\ \A q \in 1..(CommandSequence - 1) :
           mnl_cb_run(DumpMsg(i, q,
                        mnl_socket_get_portid(wifi.command_channel.nl)),
                      CommandSequence,
                      mnl_socket_get_portid(wifi.command_channel.nl),
                      "handle_NL80211_CMD_NEW_SCAN_RESULTS", scan_results)
             = [ctx |-> scan_results, ret |-> MNL_CB_ERROR]
      /\ mnl_cb_run(DumpMsg(i, CommandSequence,
                       mnl_socket_get_portid(
                         wifi.notification_channel.nl)),
                    CommandSequence,
                    mnl_socket_get_portid(wifi.command_channel.nl),
                    "handle_NL80211_CMD_NEW_SCAN_RESULTS", scan_results)
           = [ctx |-> scan_results, ret |-> MNL_CB_ERROR]

\* C27: receive_nl_message checks each message it receives against the
\* sequence number of the request just sent and the port id of its socket;
\* a response that carries the sequence number of an earlier exchange is
\* rejected and never handed to the response handler.
C27_EarlierResponseRejected ==
  /\ [][DuplicateRejected]_vars
  /\ []EarlierNumbersRejected

\* C27, its case: the GET_SCAN request of wifi_scan_all carried number 2,
\* the driver answered with the entry numbered 1, nothing was counted and
\* get_scan failed
C27_DuplicateEndedDump ==
  /\ Returning("wifi_scan_all")
  /\ dump = <<DuplicateMsg>>
  /\ scan_results.scanned = 0
  /\ scan_results.written = {}
  /\ call.get_scan_ret = MNL_CB_ERROR
  /\ CommandSequence = 3

\* the handle wifi_scan_init returned is in use: the call succeeded
HandleInUse == pc \notin {"start", "init_failed"}

\* a step of wifi_scan_all or of wifi_scan_station, from the call to its
\* return
ScanCallStep ==
  \/ call.op \in {"wifi_scan_all", "wifi_scan_station"}
  \/ call'.op \in {"wifi_scan_all", "wifi_scan_station"}

\* such a step leaves the notification channel's sequence number, family
\* id and interface index as they were, and the command channel's family
\* id and interface index too
NotificationChannelKept ==
  ScanCallStep =>
    /\ wifi'.notification_channel.sequence = NotificationSequence
    /\ wifi'.notification_channel.nl80211_id
         = wifi.notification_channel.nl80211_id
    /\ wifi'.notification_channel.ifindex = wifi.notification_channel.ifindex
    /\ wifi'.command_channel.nl80211_id = wifi.command_channel.nl80211_id
    /\ wifi'.command_channel.ifindex = wifi.command_channel.ifindex

\* wifi_scan_init succeeded: the get-family exchange made the notification
\* number 2, the command channel has exchanged nothing
CountersAfterInit ==
  (InitReturned /\ pc = "ready") =>
    (NotificationSequence = 2 /\ CommandSequence = 1)

\* the notification number is 2 for as long as the handle is in use, and
\* the command number is 1 or more
NotificationStaysTwo ==
  HandleInUse => (NotificationSequence = 2 /\ CommandSequence >= 1)

\* the command channel after an exchange that advanced its number by n
Exchanged(channel, n) == [channel EXCEPT !.sequence = @ + n]

\* trigger_scan_if_necessary and get_station on the command channel as it
\* is: each changes nothing of the channel but its number, by 1 when its
\* request was sent and by 0 when no request was needed or the send failed
ExchangeAdvancesCommand ==
  /\ pc = "trigger" =>
       \A send_ok \in BOOLEAN, t \in {"ack", "nack", "EIO"} :
         trigger_scan_if_necessary(wifi.command_channel, scanning, send_ok,
           << Terminal(t, CommandSequence,
                       mnl_socket_get_portid(wifi.command_channel.nl)) >>,
           scan_results).channel
           = Exchanged(wifi.command_channel,
                       IF send_ok /\ TriggerNecessary(scanning)
                       THEN 1 ELSE 0)
  /\ pc = "get_station" =>
       \A send_ok \in BOOLEAN, reply \in 1..5 :
         get_station(wifi.command_channel, send_ok,
           StationReplies(CommandSequence,
             mnl_socket_get_portid(wifi.command_channel.nl))[reply],
           station).channel
           = Exchanged(wifi.command_channel, IF send_ok THEN 1 ELSE 0)

\* the steps of the two calls: the command number advances by 1 in the
\* step that ends a GET_SCAN exchange, by 1 at most in the trigger step and
\* in the get-station step and only when that step sent a request, and in
\* no other step
CommandAdvancesPerExchange ==
  ScanCallStep =>
    /\ wifi'.command_channel = Exchanged(wifi.command_channel, CommandAdvance)
    /\ CASE pc = "get_scan_recv" ->
               CommandAdvance = (IF pc' = "get_scan_recv" THEN 0 ELSE 1)
         [] pc \in {"trigger", "get_station"} ->
               /\ CommandAdvance \in {0, 1}
               /\ CommandAdvance <= Len(call'.sent) - Len(call.sent)
         [] OTHER -> CommandAdvance = 0

\* C28: the two channels count independently: wifi_scan_all and
\* wifi_scan_station never change the notification channel's sequence
\* number, family id or interface index; after a successful wifi_scan_init
\* the notification number is 2 and stays 2 and the command number is 1;
\* only the command number advances, by 1 for each TRIGGER_SCAN, GET_SCAN
\* or GET_STATION exchange.
C28_ChannelsCountIndependently ==
  /\ [][NotificationChannelKept]_vars
  /\ [][CommandAdvancesPerExchange]_vars
  /\ []CountersAfterInit
  /\ []NotificationStaysTwo
  /\ []ExchangeAdvancesCommand

\* C28, its case: wifi_scan_station returns after its two exchanges on a
\* handle that wifi_scan_all used before: the command number stands at 5
\* or more, the notification number at 2
C28_CommandAheadOfNotification ==
  /\ Returning("wifi_scan_station")
  /\ call.sent = <<NL80211_CMD_GET_SCAN, NL80211_CMD_GET_STATION>>
  /\ call.failed = "none"
  /\ prev.op = "wifi_scan_all"
  /\ CommandSequence >= 5
  /\ NotificationSequence = 2

====
